---- MODULE Spec2Model ----
(***************************************************************************)
(* A model of the rpe-math library (src/src/*.ts): Vec2/3/4, Quat, Mat4   *)
(* and Transform objects live on a heap and are addressed by reference, so *)
(* that aliasing (out === a), sharing and allocation are visible.  Spec is *)
(* the Transform machine, SpecMat the Mat4 machine, SpecVec the vector     *)
(* machine, SpecQuat the quaternion machine, SpecBox the AABB machine,     *)
(* SpecRay the Ray machine, SpecPoint the machine of points through a      *)
(* Transform, SpecField the machine of direct field writes, SpecScalar the *)
(* scalar helpers, SpecBuf the Float32Array machine, SpecElem the machine  *)
(* of elementary Mat4 transforms and SpecExpand the machine of an AABB     *)
(* grown by points.                                                        *)
(*                                                                         *)
(* Numbers: an f64 is modelled by an integer.  Every operation is the      *)
(* source's arithmetic, evaluated on inputs for which f64 arithmetic is    *)
(* exact (small integers, reciprocals of 1 and -1, sines and cosines of    *)
(* multiples of a quarter turn).  Vectors are <<x, y, z>>, quaternions     *)
(* <<x, y, z, w>>, matrices 16-tuples with m00 at index 1 .. m15 at 16.    *)
(***************************************************************************)
EXTENDS Integers, Sequences, FiniteSets, TLC

VARIABLES heap, op, firstRef, steps

vars == <<heap, op, firstRef, steps>>

(***************************************************************************)
(* Bounds of the model.                                                    *)
(***************************************************************************)
MaxSteps == 3
MaxTransforms == 2

(***************************************************************************)
(* EPSILON = 1e-6 = 1 / EpsDen (polyfills.ts).                             *)
(***************************************************************************)
EpsDen == 1000000

LtEpsilon(x) == x * EpsDen < 1

(***************************************************************************)
(* The heap.  vecs, quats, mats, trs, boxes, rays are the live Vec3, Quat,  *)
(* Mat4, Transform, AABB and Ray objects, bufs the Float32Arrays of the    *)
(* caller, an object's reference being its index; 0 is null.               *)
(* allocs counts the objects allocated by the last library call, computes  *)
(* its calls of Transform.computeMatrix.                                   *)
(***************************************************************************)
Null == 0

Begin(H) == [H EXCEPT !.allocs = 0, !.computes = 0]

Alloc(H) == [H EXCEPT !.allocs = @ + 1]

NewVec3(H, x, y, z) == [Alloc(H) EXCEPT !.vecs = Append(@, <<x, y, z>>)]

NewQuat(H, x, y, z, w) == [Alloc(H) EXCEPT !.quats = Append(@, <<x, y, z, w>>)]

Mat4Identity == <<1, 0, 0, 0,  0, 1, 0, 0,  0, 0, 1, 0,  0, 0, 0, 1>>

NewMat4(H) == [Alloc(H) EXCEPT !.mats = Append(@, Mat4Identity)]

LastVec(H) == Len(H.vecs)
LastQuat(H) == Len(H.quats)
LastMat(H) == Len(H.mats)
LastTr(H) == Len(H.trs)

(***************************************************************************)
(* Vec3 (Vec3.ts): instance methods on the object v of the heap.            *)
(***************************************************************************)
Vec3_set(H, v, x, y, z) == [H EXCEPT !.vecs[v] = <<x, y, z>>]

Vec3_copy(H, v, src) ==
  LET H1 == [H EXCEPT !.vecs[v][1] = H.vecs[src][1]]
      H2 == [H1 EXCEPT !.vecs[v][2] = H1.vecs[src][2]]
  IN  [H2 EXCEPT !.vecs[v][3] = H2.vecs[src][3]]

Vec3_add(H, v, w) ==
  LET H1 == [H EXCEPT !.vecs[v][1] = @ + H.vecs[w][1]]
      H2 == [H1 EXCEPT !.vecs[v][2] = @ + H1.vecs[w][2]]
  IN  [H2 EXCEPT !.vecs[v][3] = @ + H2.vecs[w][3]]

Vec3_mulScalar(H, v, s) ==
  [H EXCEPT !.vecs[v] = <<@[1] * s, @[2] * s, @[3] * s>>]

Vec3_lerp(H, v, w, t) ==
  LET H1 == [H EXCEPT !.vecs[v][1] = @ + (H.vecs[w][1] - @) * t]
      H2 == [H1 EXCEPT !.vecs[v][2] = @ + (H1.vecs[w][2] - @) * t]
  IN  [H2 EXCEPT !.vecs[v][3] = @ + (H2.vecs[w][3] - @) * t]

\* static Vec3.lerp(a, b, t, out) with a non-null out
Vec3_lerpStatic(H, a, b, t, out) ==
  LET H1 == [H EXCEPT !.vecs[out][1] = H.vecs[a][1] + (H.vecs[b][1] - H.vecs[a][1]) * t]
      H2 == [H1 EXCEPT !.vecs[out][2] = H1.vecs[a][2] + (H1.vecs[b][2] - H1.vecs[a][2]) * t]
  IN  [H2 EXCEPT !.vecs[out][3] = H2.vecs[a][3] + (H2.vecs[b][3] - H2.vecs[a][3]) * t]

(***************************************************************************)
(* Quat (Quat.ts).                                                         *)
(***************************************************************************)
Quat_set(H, q, x, y, z, w) == [H EXCEPT !.quats[q] = <<x, y, z, w>>]

Quat_copy(H, q, src) ==
  LET H1 == [H EXCEPT !.quats[q][1] = H.quats[src][1]]
      H2 == [H1 EXCEPT !.quats[q][2] = H1.quats[src][2]]
      H3 == [H2 EXCEPT !.quats[q][3] = H2.quats[src][3]]
  IN  [H3 EXCEPT !.quats[q][4] = H3.quats[src][4]]

\* The Hamilton product written in multiply, premultiply and static multiply.
HamiltonProduct(a, b) ==
  LET ax == a[1] ay == a[2] az == a[3] aw == a[4]
      bx == b[1] by == b[2] bz == b[3] bw == b[4]
  IN  << ax * bw + aw * bx + ay * bz - az * by,
         ay * bw + aw * by + az * bx - ax * bz,
         az * bw + aw * bz + ax * by - ay * bx,
         aw * bw - ax * bx - ay * by - az * bz >>

\* this.multiply(q): both operands are read into locals before any write.
Quat_multiply(H, this, q) ==
  [H EXCEPT !.quats[this] = HamiltonProduct(H.quats[this], H.quats[q])]

\* 1.0 / x, for the x whose reciprocal is an integer.
Recip(x) == 1 \div x

ExactRecip(x) == x # 0 /\ Recip(x) * x = 1

Quat_lengthSq(q) == q[1] * q[1] + q[2] * q[2] + q[3] * q[3] + q[4] * q[4]

Quat_invert(H, this) ==
  LET q == H.quats[this]
      len2 == Quat_lengthSq(q)
  IN  IF LtEpsilon(len2) THEN H
      ELSE LET invLen2 == Recip(len2)
           IN  [H EXCEPT !.quats[this] =
                  << (-q[1]) * invLen2, (-q[2]) * invLen2, (-q[3]) * invLen2, q[4] * invLen2 >>]

\* sin and cos of k quarter turns (the half angle of k half turns).
SinQuarter(k) == CASE k % 4 = 0 -> 0 [] k % 4 = 1 -> 1 [] k % 4 = 2 -> 0 [] OTHER -> -1
CosQuarter(k) == CASE k % 4 = 0 -> 1 [] k % 4 = 1 -> 0 [] k % 4 = 2 -> -1 [] OTHER -> 0

\* rotateX/Y/Z(radians), radians = k * PI
Quat_rotateX(H, this, k) ==
  LET bx == SinQuarter(k) bw == CosQuarter(k)
      a == H.quats[this]
      ax == a[1] ay == a[2] az == a[3] aw == a[4]
  IN  [H EXCEPT !.quats[this] =
         << ax * bw + aw * bx, ay * bw + az * bx, az * bw - ay * bx, aw * bw - ax * bx >>]

Quat_rotateY(H, this, k) ==
  LET by == SinQuarter(k) bw == CosQuarter(k)
      a == H.quats[this]
      ax == a[1] ay == a[2] az == a[3] aw == a[4]
  IN  [H EXCEPT !.quats[this] =
         << ax * bw - az * by, ay * bw + aw * by, az * bw + ax * by, aw * bw - ay * by >>]

Quat_rotateZ(H, this, k) ==
  LET bz == SinQuarter(k) bw == CosQuarter(k)
      a == H.quats[this]
      ax == a[1] ay == a[2] az == a[3] aw == a[4]
  IN  [H EXCEPT !.quats[this] =
         << ax * bw + ay * bz, ay * bw - ax * bz, az * bw + aw * bz, aw * bw - az * bz >>]

\* setFromAxisAngle(axis, radians), radians = k * PI; the fields are written
\* one after the other, each from the axis object as it then is.
Quat_setFromAxisAngle(H, this, axis, k) ==
  LET s == SinQuarter(k)
      H1 == [H EXCEPT !.quats[this][1] = H.vecs[axis][1] * s]
      H2 == [H1 EXCEPT !.quats[this][2] = H1.vecs[axis][2] * s]
      H3 == [H2 EXCEPT !.quats[this][3] = H2.vecs[axis][3] * s]
  IN  [H3 EXCEPT !.quats[this][4] = CosQuarter(k)]

\* setFromEuler(x, y, z), each angle k * PI
Quat_setFromEuler(H, this, kx, ky, kz) ==
  LET cx == CosQuarter(kx) sx == SinQuarter(kx)
      cy == CosQuarter(ky) sy == SinQuarter(ky)
      cz == CosQuarter(kz) sz == SinQuarter(kz)
  IN  [H EXCEPT !.quats[this] =
         << sx * cy * cz - cx * sy * sz,
            cx * sy * cz + sx * cy * sz,
            cx * cy * sz - sx * sy * cz,
            cx * cy * cz + sx * sy * sz >>]

\* q.transformVec3(v, out) on values: v is read into locals first.
RotateVec(q, v) ==
  LET x == v[1] y == v[2] z == v[3]
      qx == q[1] qy == q[2] qz == q[3] qw == q[4]
      ix == qw * x + qy * z - qz * y
      iy == qw * y + qz * x - qx * z
      iz == qw * z + qx * y - qy * x
      iw == (-qx) * x - qy * y - qz * z
  IN  << ix * qw + iw * (-qx) + iy * (-qz) - iz * (-qy),
         iy * qw + iw * (-qy) + iz * (-qx) - ix * (-qz),
         iz * qw + iw * (-qz) + ix * (-qy) - iy * (-qx) >>

\* this.transformVec3(v, out) with a non-null out
Quat_transformVec3(H, this, v, out) ==
  [H EXCEPT !.vecs[out] = RotateVec(H.quats[this], H.vecs[v])]

(***************************************************************************)
(* Arithmetic on numbers x / one (one = 1: the integers).  slerp's         *)
(* interpolation branch needs square roots and trigonometry; they are      *)
(* evaluated to the nearest multiple of 1 / one.                           *)
(***************************************************************************)
RoundDiv(p, d) ==
  IF p >= 0 THEN (2 * p + d) \div (2 * d) ELSE -((2 * (-p) + d) \div (2 * d))

FxMul(a, b, one) == RoundDiv(a * b, one)

FxDiv(a, b, one) == IF b > 0 THEN RoundDiv(a * one, b) ELSE RoundDiv((-a) * one, -b)

RECURSIVE SqrtSearch(_, _, _)
\* the largest r in lo..hi with r * r <= n
SqrtSearch(n, lo, hi) ==
  IF lo >= hi THEN lo
  ELSE LET mid == (lo + hi + 1) \div 2
       IN  IF mid * mid <= n THEN SqrtSearch(n, mid, hi) ELSE SqrtSearch(n, lo, mid - 1)

\* Math.sqrt(x)
FxSqrt(x, one) ==
  LET n == x * one
      r == SqrtSearch(n, 0, 46340)
  IN  IF n - r * r > r THEN r + 1 ELSE r

\* Math.sin(x), |x| <= PI / 2, by its Taylor polynomial of degree 9
FxSin(x, one) ==
  LET x2 == FxMul(x, x, one)
      x3 == FxMul(x2, x, one)
      x5 == FxMul(x3, x2, one)
      x7 == FxMul(x5, x2, one)
      x9 == FxMul(x7, x2, one)
  IN  x - RoundDiv(x3, 6) + RoundDiv(x5, 120) - RoundDiv(x7, 5040) + RoundDiv(x9, 362880)

\* atan(v), 0 <= v <= sqrt(2) - 1, by its Taylor polynomial of degree 9
FxAtanSmall(v, one) ==
  LET v2 == FxMul(v, v, one)
      v3 == FxMul(v2, v, one)
      v5 == FxMul(v3, v2, one)
      v7 == FxMul(v5, v2, one)
      v9 == FxMul(v7, v2, one)
  IN  v - RoundDiv(v3, 3) + RoundDiv(v5, 5) - RoundDiv(v7, 7) + RoundDiv(v9, 9)

\* Math.atan2(y, x) for y > 0, x >= 0: the angle is halved twice
\* (tan(a / 2) = y / (r + x)) and the polynomial applied.
FxAtan2(y, x, one) ==
  LET r == FxSqrt(FxMul(x, x, one) + FxMul(y, y, one), one)
      u == FxDiv(y, r + x, one)
      v == FxDiv(u, one + FxSqrt(one + FxMul(u, u, one), one), one)
  IN  4 * FxAtanSmall(v, one)

\* q.normalize() on values
Quat_normalizeV(q, one) ==
  LET len == FxSqrt(FxMul(q[1], q[1], one) + FxMul(q[2], q[2], one)
                    + FxMul(q[3], q[3], one) + FxMul(q[4], q[4], one), one)
  IN  IF len * EpsDen > one
      THEN LET invLen == FxDiv(one, len, one)
           IN  << FxMul(q[1], invLen, one), FxMul(q[2], invLen, one),
                  FxMul(q[3], invLen, one), FxMul(q[4], invLen, one) >>
      ELSE q

\* a.slerp(b, t) on values, the numbers being multiples of 1 / one: what
\* this holds afterwards.  Both operands are read into locals before a write.
Slerp(a, b, t, one) ==
  IF t <= 0 THEN a
  ELSE IF t >= one THEN b
  ELSE
    LET dot == FxMul(a[1], b[1], one) + FxMul(a[2], b[2], one)
               + FxMul(a[3], b[3], one) + FxMul(a[4], b[4], one)
        bb == IF dot < 0 THEN << -b[1], -b[2], -b[3], -b[4] >> ELSE b
        cosHalfTheta == IF dot < 0 THEN -dot ELSE dot
    IN  IF cosHalfTheta >= one THEN a
        ELSE
          LET sqrSinHalfTheta == one - FxMul(cosHalfTheta, cosHalfTheta, one)
          IN  IF sqrSinHalfTheta * 1000 < one
              THEN Quat_normalizeV(
                     << a[1] + FxMul(t, bb[1] - a[1], one), a[2] + FxMul(t, bb[2] - a[2], one),
                        a[3] + FxMul(t, bb[3] - a[3], one), a[4] + FxMul(t, bb[4] - a[4], one) >>,
                     one)
              ELSE
                LET sinHalfTheta == FxSqrt(sqrSinHalfTheta, one)
                    halfTheta == FxAtan2(sinHalfTheta, cosHalfTheta, one)
                    ratioA == FxDiv(FxSin(FxMul(one - t, halfTheta, one), one), sinHalfTheta, one)
                    ratioB == FxDiv(FxSin(FxMul(t, halfTheta, one), one), sinHalfTheta, one)
                IN  << FxMul(a[1], ratioA, one) + FxMul(bb[1], ratioB, one),
                       FxMul(a[2], ratioA, one) + FxMul(bb[2], ratioB, one),
                       FxMul(a[3], ratioA, one) + FxMul(bb[3], ratioB, one),
                       FxMul(a[4], ratioA, one) + FxMul(bb[4], ratioB, one) >>

\* A slerp without the two early returns: t is used as it comes.
Quat_slerp_Unclamped(H, this, q, t) ==
  LET a == H.quats[this]
      b == H.quats[q]
  IN  [H EXCEPT !.quats[this] = [i \in 1 .. 4 |-> a[i] + t * (b[i] - a[i])]]

\* this.slerp(q, t): t >= 1 is this.copy(q), a field-by-field copy
Quat_slerp(H, this, q, t) ==
  IF t <= 0 THEN H
  ELSE IF t >= 1 THEN Quat_copy(H, this, q)
  ELSE [H EXCEPT !.quats[this] = Slerp(H.quats[this], H.quats[q], t, 1)]

\* static Quat.slerp(a, b, t, out) with a non-null out: out.copy(a).slerp(b, t)
Quat_slerpStatic(H, a, b, t, out) == Quat_slerp(Quat_copy(H, out, a), out, b, t)

(***************************************************************************)
(* Transform (Transform.ts).  A Transform holds references to its own      *)
(* position, rotation and scale objects and to its cached matrix (or       *)
(* null), and the dirty flag.                                              *)
(***************************************************************************)
\* new Transform()
NewTransform(H) ==
  LET H1 == NewVec3(H, 0, 0, 0)
      H2 == NewQuat(H1, 0, 0, 0, 1)
      H3 == NewVec3(H2, 1, 1, 1)
  IN  [Alloc(H3) EXCEPT !.trs = Append(@,
         [position |-> LastVec(H1), rotation |-> LastQuat(H2), scale |-> LastVec(H3),
          matrix |-> Null, dirty |-> TRUE])]

Pos(H, t) == H.trs[t].position
Rot(H, t) == H.trs[t].rotation
Scl(H, t) == H.trs[t].scale

\* A mutator epilogue that does not touch the flag.
SetDirty_Skip(H, this) == H

\* this._dirty = true
SetDirty(H, this) == [H EXCEPT !.trs[this].dirty = TRUE]

Transform_fromPosition(H, x, y, z) ==
  LET H1 == NewTransform(H)
  IN  Vec3_set(H1, Pos(H1, LastTr(H1)), x, y, z)

Transform_fromPositionVec(H, pos) ==
  LET H1 == NewTransform(H)
  IN  Vec3_copy(H1, Pos(H1, LastTr(H1)), pos)

Transform_markDirty(H, this) == SetDirty(H, this)

Transform_setIdentity(H, this) ==
  LET H1 == Vec3_set(H, Pos(H, this), 0, 0, 0)
      H2 == Quat_set(H1, Rot(H1, this), 0, 0, 0, 1)
      H3 == Vec3_set(H2, Scl(H2, this), 1, 1, 1)
  IN  SetDirty(H3, this)

\* A copy that retains src's objects instead of copying their components.
Transform_copy_ByReference(H, this, src) ==
  SetDirty([H EXCEPT !.trs[this].position = Pos(H, src),
                     !.trs[this].rotation = Rot(H, src),
                     !.trs[this].scale = Scl(H, src)], this)

Transform_copy(H, this, src) ==
  LET H1 == Vec3_copy(H, Pos(H, this), Pos(H, src))
      H2 == Quat_copy(H1, Rot(H1, this), Rot(H1, src))
      H3 == Vec3_copy(H2, Scl(H2, this), Scl(H2, src))
  IN  SetDirty(H3, this)

\* this.clone(): the clone is the last Transform of the heap
Transform_clone(H, this) ==
  LET H1 == NewTransform(H)
  IN  Transform_copy(H1, LastTr(H1), this)

\* A setPosition that leaves the dirty flag alone (the cache then goes stale).
Transform_setPosition_KeepFlag(H, this, x, y, z) ==
  Vec3_set(H, Pos(H, this), x, y, z)

Transform_setPosition(H, this, x, y, z) ==
  SetDirty(Vec3_set(H, Pos(H, this), x, y, z), this)

Transform_setPositionVec(H, this, v) ==
  SetDirty(Vec3_copy(H, Pos(H, this), v), this)

Transform_translate(H, this, x, y, z) ==
  LET p == Pos(H, this)
      H1 == [H EXCEPT !.vecs[p][1] = @ + x]
      H2 == [H1 EXCEPT !.vecs[p][2] = @ + y]
      H3 == [H2 EXCEPT !.vecs[p][3] = @ + z]
  IN  SetDirty(H3, this)

Transform_translateVec(H, this, v) ==
  SetDirty(Vec3_add(H, Pos(H, this), v), this)

Transform_setRotation(H, this, x, y, z, w) ==
  SetDirty(Quat_set(H, Rot(H, this), x, y, z, w), this)

Transform_setRotationQuat(H, this, q) ==
  SetDirty(Quat_copy(H, Rot(H, this), q), this)

Transform_setEuler(H, this, kx, ky, kz) ==
  SetDirty(Quat_setFromEuler(H, Rot(H, this), kx, ky, kz), this)

Transform_rotateX(H, this, k) == SetDirty(Quat_rotateX(H, Rot(H, this), k), this)

Transform_rotateY(H, this, k) == SetDirty(Quat_rotateY(H, Rot(H, this), k), this)

Transform_rotateZ(H, this, k) == SetDirty(Quat_rotateZ(H, Rot(H, this), k), this)

\* this.rotation.setFromAxisAngle(axis, radians).multiply(this.rotation)
Transform_rotateAxisAngle(H, this, axis, k) ==
  LET H1 == Quat_setFromAxisAngle(H, Rot(H, this), axis, k)
      H2 == Quat_multiply(H1, Rot(H1, this), Rot(H1, this))
  IN  SetDirty(H2, this)

Transform_setScale(H, this, x, y, z) ==
  SetDirty(Vec3_set(H, Scl(H, this), x, y, z), this)

Transform_setScaleVec(H, this, v) ==
  SetDirty(Vec3_copy(H, Scl(H, this), v), this)

Transform_setScaleScalar(H, this, s) ==
  SetDirty(Vec3_set(H, Scl(H, this), s, s, s), this)

Transform_scaleBy(H, this, x, y, z) ==
  LET c == Scl(H, this)
      H1 == [H EXCEPT !.vecs[c][1] = @ * x]
      H2 == [H1 EXCEPT !.vecs[c][2] = @ * y]
      H3 == [H2 EXCEPT !.vecs[c][3] = @ * z]
  IN  SetDirty(H3, this)

Transform_scaleByScalar(H, this, s) ==
  SetDirty(Vec3_mulScalar(H, Scl(H, this), s), this)

\* this.compose(other); rotatedPos is a Vec3 that transformVec3(.., null) allocates
Transform_compose(H, this, other) ==
  LET c == Scl(H, this)
      H1 == [H EXCEPT !.vecs[c][1] = @ * H.vecs[Scl(H, other)][1]]
      H2 == [H1 EXCEPT !.vecs[c][2] = @ * H1.vecs[Scl(H1, other)][2]]
      H3 == [H2 EXCEPT !.vecs[c][3] = @ * H2.vecs[Scl(H2, other)][3]]
      H4 == Quat_multiply(H3, Rot(H3, this), Rot(H3, other))
      H5 == Alloc(H4)
      rotatedPos == RotateVec(H5.quats[Rot(H5, this)], H5.vecs[Pos(H5, other)])
      p == Pos(H5, this)
      H6 == [H5 EXCEPT !.vecs[p][1] = @ + rotatedPos[1] * H5.vecs[Scl(H5, this)][1]]
      H7 == [H6 EXCEPT !.vecs[p][2] = @ + rotatedPos[2] * H6.vecs[Scl(H6, this)][2]]
      H8 == [H7 EXCEPT !.vecs[p][3] = @ + rotatedPos[3] * H7.vecs[Scl(H7, this)][3]]
  IN  SetDirty(H8, this)

\* An invert that does not negate the position.
Transform_invert_KeepSign(H, this) ==
  LET c == Scl(H, this)
      H1 == [H EXCEPT !.vecs[c][1] = Recip(@)]
      H2 == [H1 EXCEPT !.vecs[c][2] = Recip(@)]
      H3 == [H2 EXCEPT !.vecs[c][3] = Recip(@)]
      H4 == Quat_invert(H3, Rot(H3, this))
      p == Pos(H4, this)
      H6 == [H4 EXCEPT !.vecs[p][1] = @ * H4.vecs[Scl(H4, this)][1]]
      H7 == [H6 EXCEPT !.vecs[p][2] = @ * H6.vecs[Scl(H6, this)][2]]
      H8 == [H7 EXCEPT !.vecs[p][3] = @ * H7.vecs[Scl(H7, this)][3]]
      H9 == Quat_transformVec3(H8, Rot(H8, this), Pos(H8, this), Pos(H8, this))
  IN  SetDirty(H9, this)

Transform_invert(H, this) ==
  LET c == Scl(H, this)
      H1 == [H EXCEPT !.vecs[c][1] = Recip(@)]
      H2 == [H1 EXCEPT !.vecs[c][2] = Recip(@)]
      H3 == [H2 EXCEPT !.vecs[c][3] = Recip(@)]
      H4 == Quat_invert(H3, Rot(H3, this))
      H5 == Vec3_mulScalar(H4, Pos(H4, this), -1)
      p == Pos(H5, this)
      H6 == [H5 EXCEPT !.vecs[p][1] = @ * H5.vecs[Scl(H5, this)][1]]
      H7 == [H6 EXCEPT !.vecs[p][2] = @ * H6.vecs[Scl(H6, this)][2]]
      H8 == [H7 EXCEPT !.vecs[p][3] = @ * H7.vecs[Scl(H7, this)][3]]
      H9 == Quat_transformVec3(H8, Rot(H8, this), Pos(H8, this), Pos(H8, this))
  IN  SetDirty(H9, this)

Transform_lerp(H, this, other, t) ==
  LET H1 == Vec3_lerp(H, Pos(H, this), Pos(H, other), t)
      H2 == Quat_slerp(H1, Rot(H1, this), Rot(H1, other), t)
      H3 == Vec3_lerp(H2, Scl(H2, this), Scl(H2, other), t)
  IN  SetDirty(H3, this)

\* The matrix computeMatrix writes, from the position, rotation and scale values.
TRSMatrix(pos, q, s) ==
  LET px == pos[1] py == pos[2] pz == pos[3]
      sx == s[1] sy == s[2] sz == s[3]
      x == q[1] y == q[2] z == q[3] w == q[4]
      x2 == x + x  y2 == y + y  z2 == z + z
      xx == x * x2 xy == x * y2 xz == x * z2
      yy == y * y2 yz == y * z2 zz == z * z2
      wx == w * x2 wy == w * y2 wz == w * z2
  IN  << (1 - (yy + zz)) * sx, (xy + wz) * sx, (xz - wy) * sx, 0,
         (xy - wz) * sy, (1 - (xx + zz)) * sy, (yz + wx) * sy, 0,
         (xz + wy) * sz, (yz - wx) * sz, (1 - (xx + yy)) * sz, 0,
         px, py, pz, 1 >>

\* this.computeMatrix(out): only the Mat4 out is written
Transform_computeMatrix(H, this, out) ==
  [H EXCEPT !.mats[out] = TRSMatrix(H.vecs[Pos(H, this)], H.quats[Rot(H, this)],
                                    H.vecs[Scl(H, this)]),
            !.computes = @ + 1]

\* A getMatrix that allocates a new Mat4 for every recomputation.
Transform_getMatrix_NewEachTime(H, this) ==
  IF H.trs[this].dirty \/ H.trs[this].matrix = Null
  THEN LET H1 == [NewMat4(H) EXCEPT !.trs[this].matrix = Len(H.mats) + 1]
           H2 == Transform_computeMatrix(H1, this, H1.trs[this].matrix)
       IN  [H2 EXCEPT !.trs[this].dirty = FALSE]
  ELSE H

\* this.getMatrix(): the reference returned is the matrix field afterwards
Transform_getMatrix(H, this) ==
  IF H.trs[this].dirty \/ H.trs[this].matrix = Null
  THEN LET H1 == IF H.trs[this].matrix = Null
                 THEN [NewMat4(H) EXCEPT !.trs[this].matrix = Len(H.mats) + 1]
                 ELSE H
           H2 == Transform_computeMatrix(H1, this, H1.trs[this].matrix)
       IN  [H2 EXCEPT !.trs[this].dirty = FALSE]
  ELSE H

\* The Transform a static operation writes: out, or a new one when out is null.
OutTransform(H, out) == IF out = Null THEN Len(H.trs) + 1 ELSE out

WithOut(H, out) == IF out = Null THEN NewTransform(H) ELSE H

Transform_lerpStatic(H, a, b, t, out) ==
  LET o == OutTransform(H, out)
      H0 == WithOut(H, out)
      H1 == Vec3_lerpStatic(H0, Pos(H0, a), Pos(H0, b), t, Pos(H0, o))
      H2 == Quat_slerpStatic(H1, Rot(H1, a), Rot(H1, b), t, Rot(H1, o))
      H3 == Vec3_lerpStatic(H2, Scl(H2, a), Scl(H2, b), t, Scl(H2, o))
  IN  SetDirty(H3, o)

\* out.copy(a).compose(b)
Transform_composeStatic(H, a, b, out) ==
  LET o == OutTransform(H, out)
      H0 == WithOut(H, out)
  IN  Transform_compose(Transform_copy(H0, o, a), o, b)

\* out.copy(t).invert()
Transform_invertStatic(H, t, out) ==
  LET o == OutTransform(H, out)
      H0 == WithOut(H, out)
  IN  Transform_invert(Transform_copy(H0, o, t), o)

(***************************************************************************)
(* The Transform machine.  The caller owns a Vec3 (reference 1) and a Quat *)
(* (reference 1) that it passes to the Vec/Quat-taking methods and may     *)
(* overwrite at any time; one Transform has been constructed.  op is the *)
(* last call: its name, the Transform it wrote (this, or the out of a      *)
(* static call), its arguments and the reference getMatrix returned.       *)
(* firstRef[t] is the reference the first getMatrix call on t returned.    *)
(***************************************************************************)
InVec == { <<0, 1, 0>>, <<0, 2, -1>> }
InScale == { <<2, 1, 1>>, <<-1, 1, -1>> }
InQuat == { <<1, 0, 0, 0>>, <<0, 1, 0, 0>> }
InScalar == { 2, -1 }
InTurns == { 1 }
InEuler == { <<1, 0, 1>> }
InT == { 0, 1 }

EmptyHeap ==
  [vecs |-> <<>>, quats |-> <<>>, mats |-> <<>>, trs |-> <<>>, boxes |-> <<>>, rays |-> <<>>,
   bufs |-> <<>>, allocs |-> 0, computes |-> 0]

NoOp ==
  [name |-> "new", this |-> Null, a |-> Null, b |-> Null, out |-> Null, t |-> 0,
   ret |-> Null, inplace |-> FALSE, mutator |-> FALSE]

TrIds == 1 .. Len(heap.trs)

Init ==
  /\ heap = Begin(NewTransform(NewQuat(NewVec3(EmptyHeap, 1, 0, 0), 1, 0, 0, 0)))
  /\ op = [NoOp EXCEPT !.this = 1]
  /\ firstRef = <<Null>>
  /\ steps = 0

\* A call that leads to heap H2 and is recorded as o.
Call(H2, o) ==
  /\ steps < MaxSteps
  /\ steps' = steps + 1
  /\ heap' = H2
  /\ op' = o
  /\ firstRef' = [t \in 1 .. Len(H2.trs) |->
                    IF t <= Len(firstRef) /\ firstRef[t] # Null THEN firstRef[t]
                    ELSE IF o.name = "getMatrix" /\ o.this = t THEN o.ret
                    ELSE Null]

\* An in-place (instance) mutator of Transform this.
Mutate(name, H2, this) ==
  Call(H2, [NoOp EXCEPT !.name = name, !.this = this, !.inplace = TRUE, !.mutator = TRUE])

\* A static call with inputs a, b and the out argument as passed.
Static(name, H2, a, b, t, out) ==
  Call(H2, [NoOp EXCEPT !.name = name, !.this = OutTransform(heap, out), !.a = a, !.b = b,
                        !.t = t, !.out = out, !.mutator = TRUE])

CanConstruct == Len(heap.trs) < MaxTransforms

\* The caller overwrites its own vector or quaternion.
CallerSetsVec ==
  \E v \in InVec :
    Call(Vec3_set(Begin(heap), 1, v[1], v[2], v[3]), [NoOp EXCEPT !.name = "Vec3.set"])

CallerSetsQuat ==
  \E q \in InQuat :
    Call(Quat_set(Begin(heap), 1, q[1], q[2], q[3], q[4]), [NoOp EXCEPT !.name = "Quat.set"])

Construct ==
  /\ CanConstruct
  /\ Call(NewTransform(Begin(heap)), [NoOp EXCEPT !.this = Len(heap.trs) + 1])

FromPosition ==
  /\ CanConstruct
  /\ \E v \in InVec :
       Call(Transform_fromPosition(Begin(heap), v[1], v[2], v[3]),
            [NoOp EXCEPT !.name = "fromPosition", !.this = Len(heap.trs) + 1])

FromPositionVec ==
  /\ CanConstruct
  /\ Call(Transform_fromPositionVec(Begin(heap), 1),
          [NoOp EXCEPT !.name = "fromPositionVec", !.this = Len(heap.trs) + 1])

Clone ==
  /\ CanConstruct
  /\ \E this \in TrIds :
       Call(Transform_clone(Begin(heap), this),
            [NoOp EXCEPT !.name = "clone", !.this = Len(heap.trs) + 1, !.a = this])

MarkDirty ==
  \E this \in TrIds : Mutate("markDirty", Transform_markDirty(Begin(heap), this), this)

SetIdentity ==
  \E this \in TrIds : Mutate("setIdentity", Transform_setIdentity(Begin(heap), this), this)

Copy ==
  \E this \in TrIds, src \in TrIds :
    Call(Transform_copy(Begin(heap), this, src),
         [NoOp EXCEPT !.name = "copy", !.this = this, !.a = src, !.inplace = TRUE,
                      !.mutator = TRUE])

SetPosition ==
  \E this \in TrIds, v \in InVec :
    Mutate("setPosition", Transform_setPosition(Begin(heap), this, v[1], v[2], v[3]), this)

SetPositionVec ==
  \E this \in TrIds :
    Mutate("setPositionVec", Transform_setPositionVec(Begin(heap), this, 1), this)

Translate ==
  \E this \in TrIds, v \in InVec :
    Mutate("translate", Transform_translate(Begin(heap), this, v[1], v[2], v[3]), this)

TranslateVec ==
  \E this \in TrIds :
    Mutate("translateVec", Transform_translateVec(Begin(heap), this, 1), this)

SetRotation ==
  \E this \in TrIds, q \in InQuat :
    Mutate("setRotation", Transform_setRotation(Begin(heap), this, q[1], q[2], q[3], q[4]), this)

SetRotationQuat ==
  \E this \in TrIds :
    Mutate("setRotationQuat", Transform_setRotationQuat(Begin(heap), this, 1), this)

SetEuler ==
  \E this \in TrIds, e \in InEuler :
    Mutate("setEuler", Transform_setEuler(Begin(heap), this, e[1], e[2], e[3]), this)

RotateX ==
  \E this \in TrIds, k \in InTurns :
    Mutate("rotateX", Transform_rotateX(Begin(heap), this, k), this)

RotateY ==
  \E this \in TrIds, k \in InTurns :
    Mutate("rotateY", Transform_rotateY(Begin(heap), this, k), this)

RotateZ ==
  \E this \in TrIds, k \in InTurns :
    Mutate("rotateZ", Transform_rotateZ(Begin(heap), this, k), this)

RotateAxisAngle ==
  \E this \in TrIds, k \in InTurns :
    Mutate("rotateAxisAngle", Transform_rotateAxisAngle(Begin(heap), this, 1, k), this)

SetScale ==
  \E this \in TrIds, v \in InScale :
    Mutate("setScale", Transform_setScale(Begin(heap), this, v[1], v[2], v[3]), this)

SetScaleVec ==
  \E this \in TrIds :
    Mutate("setScaleVec", Transform_setScaleVec(Begin(heap), this, 1), this)

SetScaleScalar ==
  \E this \in TrIds, s \in InScalar :
    Mutate("setScaleScalar", Transform_setScaleScalar(Begin(heap), this, s), this)

ScaleBy ==
  \E this \in TrIds, v \in InScale :
    Mutate("scaleBy", Transform_scaleBy(Begin(heap), this, v[1], v[2], v[3]), this)

ScaleByScalar ==
  \E this \in TrIds, s \in InScalar :
    Mutate("scaleByScalar", Transform_scaleByScalar(Begin(heap), this, s), this)

Compose ==
  \E this \in TrIds, other \in TrIds :
    Call(Transform_compose(Begin(heap), this, other),
         [NoOp EXCEPT !.name = "compose", !.this = this, !.a = other, !.inplace = TRUE,
                      !.mutator = TRUE])

\* 1.0 / x is exact for the scale components and the squared length here.
CanInvert(H, t) ==
  /\ \A i \in 1 .. 3 : ExactRecip(H.vecs[Scl(H, t)][i])
  /\ Quat_lengthSq(H.quats[Rot(H, t)]) \in { 0, 1 }

Invert ==
  \E this \in TrIds :
    /\ CanInvert(heap, this)
    /\ Mutate("invert", Transform_invert(Begin(heap), this), this)

Lerp ==
  \E this \in TrIds, other \in TrIds, t \in InT :
    Call(Transform_lerp(Begin(heap), this, other, t),
         [NoOp EXCEPT !.name = "lerp", !.this = this, !.a = other, !.t = t, !.inplace = TRUE,
                      !.mutator = TRUE])

GetMatrix ==
  \E this \in TrIds :
    LET H2 == Transform_getMatrix(Begin(heap), this)
    IN  Call(H2, [NoOp EXCEPT !.name = "getMatrix", !.this = this, !.ret = H2.trs[this].matrix])

OutArgs == IF CanConstruct THEN TrIds \cup { Null } ELSE TrIds

LerpStatic ==
  \E a \in TrIds, b \in TrIds, t \in InT, out \in OutArgs :
    Static("Transform.lerp", Transform_lerpStatic(Begin(heap), a, b, t, out), a, b, t, out)

ComposeStatic ==
  \E a \in TrIds, b \in TrIds, out \in OutArgs :
    Static("Transform.compose", Transform_composeStatic(Begin(heap), a, b, out), a, b, 0, out)

InvertStatic ==
  \E t \in TrIds, out \in OutArgs :
    /\ CanInvert(heap, t)
    /\ Static("Transform.invert", Transform_invertStatic(Begin(heap), t, out), t, Null, 0, out)

Next ==
  \/ CallerSetsVec \/ CallerSetsQuat
  \/ Construct \/ FromPosition \/ FromPositionVec \/ Clone
  \/ MarkDirty \/ SetIdentity \/ Copy
  \/ SetPosition \/ SetPositionVec \/ Translate \/ TranslateVec
  \/ SetRotation \/ SetRotationQuat \/ SetEuler
  \/ RotateX \/ RotateY \/ RotateZ \/ RotateAxisAngle
  \/ SetScale \/ SetScaleVec \/ SetScaleScalar \/ ScaleBy \/ ScaleByScalar
  \/ Compose \/ Invert \/ Lerp \/ GetMatrix
  \/ LerpStatic \/ ComposeStatic \/ InvertStatic

Spec == Init /\ [][Next]_vars

(***************************************************************************)
(* Properties of the Transform machine.                                    *)
(***************************************************************************)
\* The position, rotation and scale values of Transform t in heap H.
TVal(H, t) == << H.vecs[Pos(H, t)], H.quats[Rot(H, t)], H.vecs[Scl(H, t)] >>

\* What computeMatrix yields for the current values of Transform t.
Fresh(H, t) == TRSMatrix(H.vecs[Pos(H, t)], H.quats[Rot(H, t)], H.vecs[Scl(H, t)])

\* C1: whatever calls came before, the matrix getMatrix() returns has the 16
\* components computeMatrix gives for the transform's current position,
\* rotation and scale; and a cache that is marked clean is never stale.
C1_GetMatrixCurrent ==
  /\ op.name = "getMatrix" => heap.mats[op.ret] = Fresh(heap, op.this)
  /\ \A t \in TrIds :
       (~heap.trs[t].dirty /\ heap.trs[t].matrix # Null)
         => heap.mats[heap.trs[t].matrix] = Fresh(heap, t)

\* getMatrix() found an existing cache dirty and recomputed it to a matrix
\* with a non-zero translation: a mutation came between two getMatrix calls.
C1_Witness ==
  /\ op.name = "getMatrix"
  /\ heap.allocs = 0
  /\ heap.computes = 1
  /\ heap.mats[op.ret][14] # 0


\* One step of the dirty-flag protocol.
C2_DirtyStep ==
  /\ op'.mutator => heap'.trs[op'.this].dirty
  /\ \A t \in 1 .. Len(heap'.trs) : t > Len(heap.trs) => heap'.trs[t].dirty
  /\ \A t \in TrIds :
       (heap.trs[t].dirty /\ ~heap'.trs[t].dirty)
         => /\ op'.name = "getMatrix"
            /\ op'.this = t
            /\ heap'.computes = 1
            /\ heap'.mats[op'.ret] = Fresh(heap', t)
  /\ (op'.name = "getMatrix" /\ ~heap.trs[op'.this].dirty /\ heap.trs[op'.this].matrix # Null)
       => /\ heap'.computes = 0
          /\ heap'.mats = heap.mats
          /\ op'.ret = heap.trs[op'.this].matrix

\* C2: the dirty flag is true after construction and after every mutating
\* method (and a static call on its out); it turns false only in a getMatrix()
\* call on that transform in which computeMatrix ran; and getMatrix() on a clean
\* transform that has a cache recomputes nothing.
C2_DirtyFlag ==
  /\ \A t \in TrIds : heap.trs[t].dirty
  /\ [][C2_DirtyStep]_vars

\* getMatrix() on a clean transform returned the cache without recomputing,
\* after a mutator had changed the scale or rotation and a getMatrix() cleared
\* the flag.
C2_Witness ==
  /\ op.name = "getMatrix"
  /\ heap.computes = 0
  /\ ~heap.trs[op.this].dirty
  /\ heap.mats[op.ret][1] # 1

\* C3: a Transform allocates its cached Mat4 at most once: there is one Mat4
\* per Transform that has been asked for its matrix, every getMatrix() returns
\* the reference the first call returned, and that reference shows the
\* recomputed values.
C3_SingleCache ==
  /\ \A t \in TrIds : heap.trs[t].matrix = firstRef[t]
  /\ Len(heap.mats) = Cardinality({ t \in TrIds : firstRef[t] # Null })
  /\ op.name = "getMatrix"
       => /\ op.ret = firstRef[op.this]
          /\ op.ret # Null
          /\ heap.mats[firstRef[op.this]] = Fresh(heap, op.this)

\* A getMatrix() call recomputed into the Mat4 an earlier call had returned:
\* no allocation, one computeMatrix, and values other than the identity's.
C3_Witness ==
  /\ op.name = "getMatrix"
  /\ heap.allocs = 0
  /\ heap.computes = 1
  /\ op.ret = firstRef[op.this]
  /\ heap.mats[firstRef[op.this]] # Mat4Identity

\* No object is referenced from two places: the position, rotation, scale and
\* cache of the Transforms are pairwise distinct objects, and none is the
\* caller's vector or quaternion.
NoSharing(H) ==
  LET T == 1 .. Len(H.trs)
  IN  /\ \A t \in T : Pos(H, t) # 1 /\ Scl(H, t) # 1 /\ Rot(H, t) # 1
      /\ \A t, u \in T : Pos(H, t) # Scl(H, u)
      /\ \A t, u \in T :
           t # u => /\ Pos(H, t) # Pos(H, u)
                    /\ Rot(H, t) # Rot(H, u)
                    /\ Scl(H, t) # Scl(H, u)
                    /\ (H.trs[t].matrix # Null => H.trs[t].matrix # H.trs[u].matrix)

\* A step changes the values and the cached matrix of no Transform other than
\* the one it is called on (or writes as out), getMatrix() changes no values at
\* all, and only the caller changes the caller's vector and quaternion.
C4_FrameStep ==
  /\ \A t \in TrIds :
       (t # op'.this \/ op'.name = "getMatrix") => TVal(heap', t) = TVal(heap, t)
  /\ \A t \in TrIds :
       t # op'.this
         => /\ heap'.trs[t].matrix = heap.trs[t].matrix
            /\ heap.trs[t].matrix # Null
                 => heap'.mats[heap.trs[t].matrix] = heap.mats[heap.trs[t].matrix]
  /\ op'.name # "Vec3.set" => heap'.vecs[1] = heap.vecs[1]
  /\ op'.name # "Quat.set" => heap'.quats[1] = heap.quats[1]

\* C4: Transforms share no state with each other or with the vectors and
\* quaternions passed to them: copy, clone, fromPositionVec, the *Vec/*Quat
\* setters and the static operations copy component values, the cache is not
\* shared, so changing a source afterwards changes no other Transform's
\* position, rotation, scale or matrix.
C4_NoSharedState ==
  /\ NoSharing(heap)
  /\ [][C4_FrameStep /\ NoSharing(heap')]_vars

\* The second Transform was made by fromPositionVec from the caller's vector
\* <<1, 0, 0>> (no other call produces that position in one step), the caller
\* then overwrote the vector, and the Transform kept the old position.
C4_Witness ==
  /\ steps = 2
  /\ op.name = "Vec3.set"
  /\ Len(heap.trs) = 2
  /\ heap.vecs[Pos(heap, 2)] = <<1, 0, 0>>
  /\ heap.vecs[1] # <<1, 0, 0>>

\* C7: static Quat.slerp(a, b, t, out), as static Transform.lerp calls it on
\* the rotations, leaves in out the quaternion it produces for a distinct
\* (newly allocated) out, also when out is the same object as a or as b.
C7_SlerpOutMayAlias ==
  [][ (op'.name = "Transform.lerp" /\ op'.out # Null)
        => LET D == Transform_lerpStatic(Begin(heap), op'.a, op'.b, op'.t, Null)
           IN  heap'.quats[Rot(heap', op'.out)] = D.quats[Rot(D, LastTr(D))] ]_vars

\* C8: static Transform.compose(a, b, out) leaves in out the position,
\* rotation and scale it produces for a distinct (newly allocated) out, also
\* when out is the same object as a or as b.
C8_ComposeOutMayAlias ==
  [][ (op'.name = "Transform.compose" /\ op'.out # Null)
        => LET D == Transform_composeStatic(Begin(heap), op'.a, op'.b, Null)
           IN  TVal(heap', op'.out) = TVal(D, LastTr(D)) ]_vars

\* C10: an in-place operation allocates no object, and neither does a static
\* operation that is given an out.
C10_NoAllocation ==
  /\ op.inplace => heap.allocs = 0
  /\ op.out # Null => heap.allocs = 0

(***************************************************************************)
(* Mat4 (Mat4.ts).  A matrix is its 16 fields m00 .. m15 in column-major   *)
(* order; field mNN is component NN + 1 of the tuple.  Every assignment of *)
(* the source is one write to the heap, in the source's order, so that a   *)
(* read that follows a write to the same object sees the written value.    *)
(***************************************************************************)
\* obj.mNN
Fld(H, obj, n) == H.mats[obj][n + 1]

\* obj.mNN = v
PutFld(H, obj, n, v) == [H EXCEPT !.mats[obj][n + 1] = v]

\* out.mXX = src.mYY for each pair <<XX, YY>> of assigns, in order
RECURSIVE AssignFields(_, _, _, _)
AssignFields(H, out, src, assigns) ==
  IF assigns = <<>> THEN H
  ELSE AssignFields(PutFld(H, out, Head(assigns)[1], Fld(H, src, Head(assigns)[2])),
                    out, src, Tail(assigns))

\* Mat4.fromValues(...): a new matrix with the given fields
Mat4_fromValues(H, vals) ==
  LET H1 == NewMat4(H)
  IN  [H1 EXCEPT !.mats[LastMat(H1)] = vals]

\* this.copy(src)
Mat4_copy(H, this, src) ==
  AssignFields(H, this, src, [i \in 1 .. 16 |-> <<i - 1, i - 1>>])

\* One column of a product: bx, by, bz, bw are read from b, then the four
\* fields of column c of out are written from them and the locals A.
MultiplyColumn(H, A, b, out, c) ==
  LET bx == Fld(H, b, 4 * c)
      by == Fld(H, b, 4 * c + 1)
      bz == Fld(H, b, 4 * c + 2)
      bw == Fld(H, b, 4 * c + 3)
      H1 == PutFld(H, out, 4 * c, bx * A[1] + by * A[5] + bz * A[9] + bw * A[13])
      H2 == PutFld(H1, out, 4 * c + 1, bx * A[2] + by * A[6] + bz * A[10] + bw * A[14])
      H3 == PutFld(H2, out, 4 * c + 2, bx * A[3] + by * A[7] + bz * A[11] + bw * A[15])
  IN  PutFld(H3, out, 4 * c + 3, bx * A[4] + by * A[8] + bz * A[12] + bw * A[16])

\* this.multiply(b): the fields of this are read into locals first
Mat4_multiply(H, this, b) ==
  LET A == H.mats[this]
      H1 == MultiplyColumn(H, A, b, this, 0)
      H2 == MultiplyColumn(H1, A, b, this, 1)
      H3 == MultiplyColumn(H2, A, b, this, 2)
  IN  MultiplyColumn(H3, A, b, this, 3)

\* The matrix a static operation writes: out, or a new one when out is null.
OutMat(H, out) == IF out = Null THEN Len(H.mats) + 1 ELSE out

WithOutMat(H, out) == IF out = Null THEN NewMat4(H) ELSE H

\* A product whose columns read the fields of a when they are needed.
Mat4_multiplyStatic_LateReads(H, a, b, out) ==
  LET o == OutMat(H, out)
      H0 == WithOutMat(H, out)
      H1 == MultiplyColumn(H0, H0.mats[a], b, o, 0)
      H2 == MultiplyColumn(H1, H1.mats[a], b, o, 1)
      H3 == MultiplyColumn(H2, H2.mats[a], b, o, 2)
  IN  MultiplyColumn(H3, H3.mats[a], b, o, 3)

\* Mat4.multiply(a, b, out): the fields of a are read into locals first
Mat4_multiplyStatic(H, a, b, out) ==
  LET o == OutMat(H, out)
      H0 == WithOutMat(H, out)
      A == H0.mats[a]
      H1 == MultiplyColumn(H0, A, b, o, 0)
      H2 == MultiplyColumn(H1, A, b, o, 1)
      H3 == MultiplyColumn(H2, A, b, o, 2)
  IN  MultiplyColumn(H3, A, b, o, 3)

\* this.premultiply(b): temp = Mat4.multiply(b, this, null); this.copy(temp)
Mat4_premultiply(H, this, b) ==
  LET H1 == Mat4_multiplyStatic(H, b, this, Null)
  IN  Mat4_copy(H1, this, LastMat(H1))

\* t = this.mXX; this.mXX = this.mYY; this.mYY = t
SwapFields(H, this, x, y) ==
  LET t == Fld(H, this, x)
      H1 == PutFld(H, this, x, Fld(H, this, y))
  IN  PutFld(H1, this, y, t)

\* this.transpose(): six swaps
Mat4_transpose(H, this) ==
  LET H1 == SwapFields(H, this, 1, 4)
      H2 == SwapFields(H1, this, 2, 8)
      H3 == SwapFields(H2, this, 3, 12)
      H4 == SwapFields(H3, this, 6, 9)
      H5 == SwapFields(H4, this, 7, 13)
  IN  SwapFields(H5, this, 11, 14)

\* Mat4.transpose(m, out): sixteen assignments out.mXX = m.mYY
Mat4_transposeStatic(H, m, out) ==
  AssignFields(WithOutMat(H, out), OutMat(H, out), m,
    << <<0, 0>>, <<1, 4>>, <<2, 8>>, <<3, 12>>,
       <<4, 1>>, <<5, 5>>, <<6, 9>>, <<7, 13>>,
       <<8, 2>>, <<9, 6>>, <<10, 10>>, <<11, 14>>,
       <<12, 3>>, <<13, 7>>, <<14, 11>>, <<15, 15>> >>)

\* b00 .. b11 of invert: the 2x2 minors of the first two and last two columns
Mat4_minors(A) ==
  << A[1] * A[6] - A[2] * A[5],
     A[1] * A[7] - A[3] * A[5],
     A[1] * A[8] - A[4] * A[5],
     A[2] * A[7] - A[3] * A[6],
     A[2] * A[8] - A[4] * A[6],
     A[3] * A[8] - A[4] * A[7],
     A[9] * A[14] - A[10] * A[13],
     A[9] * A[15] - A[11] * A[13],
     A[9] * A[16] - A[12] * A[13],
     A[10] * A[15] - A[11] * A[14],
     A[10] * A[16] - A[12] * A[14],
     A[11] * A[16] - A[12] * A[15] >>

\* det of invert, from the locals A (a00 .. a33) and B (b00 .. b11)
Mat4_det(A) ==
  LET B == Mat4_minors(A)
  IN  B[1] * B[12] - B[2] * B[11] + B[3] * B[10] + B[4] * B[9] - B[5] * B[8] + B[6] * B[7]

\* det < EPSILON && det > -EPSILON
NearZero(det) == LtEpsilon(det) /\ LtEpsilon(-det)

\* The sixteen fields invert writes, before the multiplication by 1.0 / det
Mat4_adjugate(A) ==
  LET B == Mat4_minors(A)
  IN  << A[6] * B[12] - A[7] * B[11] + A[8] * B[10],
         A[3] * B[11] - A[2] * B[12] - A[4] * B[10],
         A[14] * B[6] - A[15] * B[5] + A[16] * B[4],
         A[11] * B[5] - A[10] * B[6] - A[12] * B[4],
         A[7] * B[9] - A[5] * B[12] - A[8] * B[8],
         A[1] * B[12] - A[3] * B[9] + A[4] * B[8],
         A[15] * B[3] - A[13] * B[6] - A[16] * B[2],
         A[9] * B[6] - A[11] * B[3] + A[12] * B[2],
         A[5] * B[11] - A[6] * B[9] + A[8] * B[7],
         A[2] * B[9] - A[1] * B[11] - A[4] * B[7],
         A[13] * B[5] - A[14] * B[3] + A[16] * B[1],
         A[10] * B[3] - A[9] * B[5] - A[12] * B[1],
         A[6] * B[8] - A[5] * B[10] - A[7] * B[7],
         A[1] * B[10] - A[2] * B[8] + A[3] * B[7],
         A[14] * B[2] - A[13] * B[4] - A[15] * B[1],
         A[9] * B[4] - A[10] * B[2] + A[11] * B[1] >>

\* An invert that resets a matrix it cannot invert to the identity.
Mat4_invert_ResetSingular(H, this) ==
  LET A == H.mats[this]
      det == Mat4_det(A)
  IN  IF NearZero(det) THEN [H EXCEPT !.mats[this] = Mat4Identity]
      ELSE [H EXCEPT !.mats[this] = [i \in 1 .. 16 |-> Mat4_adjugate(A)[i] * Recip(det)]]

\* An invert that leaves out the multiplication by 1.0 / det.
Mat4_invert_NoDivision(H, this) ==
  LET A == H.mats[this]
      det == Mat4_det(A)
  IN  IF NearZero(det) THEN H
      ELSE [H EXCEPT !.mats[this] = Mat4_adjugate(A)]

\* this.invert(): every field is computed from the locals a00 .. a33, b00 ..
\* b11 and det, which are read before the first write
Mat4_invert(H, this) ==
  LET A == H.mats[this]
      det == Mat4_det(A)
  IN  IF NearZero(det) THEN H
      ELSE [H EXCEPT !.mats[this] = [i \in 1 .. 16 |-> Mat4_adjugate(A)[i] * Recip(det)]]

\* this.clone(): new Mat4().copy(this); the clone is the last matrix of the heap
Mat4_clone(H, this) ==
  LET H1 == NewMat4(H)
  IN  Mat4_copy(H1, LastMat(H1), this)

(***************************************************************************)
(* The Mat4 machine: the caller holds up to MaxMats matrices and calls the *)
(* instance and static operations on them, with out any of the matrices    *)
(* (an input included) or null.                                            *)
(***************************************************************************)
MaxMats == 3

InMat == { << 1, 2, 0, 0,   0, 1, 0, 0,   0, 0, 1, 0,   1, 0, -1, 1 >>,
           << 0, 1, 0, 0,  -1, 0, 0, 0,   0, 0, 2, 0,   0, 0, 0, 1 >>,
           << 0, 1, 0, 1,   1, 0, 0, 0,   0, 0, 1, 0,   2, 0, 0, 1 >>,
           << 1, 2, 0, 0,   2, 4, 0, 0,   0, 0, 1, 0,   0, 0, 0, 1 >> }

MatIds == 1 .. Len(heap.mats)

\* Matrices whose products and determinants stay well inside the integers of
\* the model: the machine multiplies and inverts only these.
MaxMatEntry == 40

SmallMat(A) == \A i \in 1 .. 16 : A[i] \in -MaxMatEntry .. MaxMatEntry

CanAllocMat == Len(heap.mats) < MaxMats

OutMatArgs == IF CanAllocMat THEN MatIds \cup { Null } ELSE MatIds

InitMat ==
  /\ heap = Begin(NewMat4(EmptyHeap))
  /\ op = NoOp
  /\ firstRef = <<>>
  /\ steps = 0

MatFromValues ==
  /\ CanAllocMat
  /\ \E v \in InMat :
       Call(Mat4_fromValues(Begin(heap), v),
            [NoOp EXCEPT !.name = "Mat4.fromValues", !.this = Len(heap.mats) + 1])

MatCopy ==
  \E this \in MatIds, src \in MatIds :
    Call(Mat4_copy(Begin(heap), this, src),
         [NoOp EXCEPT !.name = "copy", !.this = this, !.a = src, !.inplace = TRUE])

MatMultiply ==
  \E this \in MatIds, b \in MatIds :
    /\ SmallMat(heap.mats[this]) /\ SmallMat(heap.mats[b])
    /\ Call(Mat4_multiply(Begin(heap), this, b),
         [NoOp EXCEPT !.name = "multiply", !.this = this, !.b = b, !.inplace = TRUE])

MatPremultiply ==
  /\ CanAllocMat
  /\ \E this \in MatIds, b \in MatIds :
       /\ SmallMat(heap.mats[this]) /\ SmallMat(heap.mats[b])
       /\ Call(Mat4_premultiply(Begin(heap), this, b),
            [NoOp EXCEPT !.name = "premultiply", !.this = this, !.b = b, !.inplace = TRUE])

MatTranspose ==
  \E this \in MatIds :
    Call(Mat4_transpose(Begin(heap), this),
         [NoOp EXCEPT !.name = "transpose", !.this = this, !.inplace = TRUE])

MatMultiplyStatic ==
  \E a \in MatIds, b \in MatIds, out \in OutMatArgs :
    /\ SmallMat(heap.mats[a]) /\ SmallMat(heap.mats[b])
    /\ Call(Mat4_multiplyStatic(Begin(heap), a, b, out),
         [NoOp EXCEPT !.name = "Mat4.multiply", !.this = OutMat(heap, out),
                      !.a = a, !.b = b, !.out = out])

MatTransposeStatic ==
  \E m \in MatIds, out \in OutMatArgs :
    Call(Mat4_transposeStatic(Begin(heap), m, out),
         [NoOp EXCEPT !.name = "Mat4.transpose", !.this = OutMat(heap, out),
                      !.a = m, !.out = out])

\* 1.0 / det is exact for the determinants 1 and -1; 0 is not inverted.
MatInvert ==
  \E this \in MatIds :
    /\ SmallMat(heap.mats[this])
    /\ Mat4_det(heap.mats[this]) \in { -1, 0, 1 }
    /\ Call(Mat4_invert(Begin(heap), this),
            [NoOp EXCEPT !.name = "invert", !.this = this, !.inplace = TRUE])

MatClone ==
  /\ CanAllocMat
  /\ \E this \in MatIds :
       Call(Mat4_clone(Begin(heap), this),
            [NoOp EXCEPT !.name = "clone", !.this = Len(heap.mats) + 1, !.a = this])

NextMat ==
  \/ MatFromValues \/ MatCopy \/ MatClone \/ MatInvert
  \/ MatMultiply \/ MatPremultiply \/ MatTranspose
  \/ MatMultiplyStatic \/ MatTransposeStatic

SpecMat == InitMat /\ [][NextMat]_vars

\* The product a * b of two matrices given as column-major tuples.
MatProduct(A, B) ==
  [i \in 1 .. 16 |->
     LET r == (i - 1) % 4
         c == (i - 1) \div 4
     IN  A[r + 1] * B[4 * c + 1] + A[r + 5] * B[4 * c + 2]
           + A[r + 9] * B[4 * c + 3] + A[r + 13] * B[4 * c + 4]]

\* The transpose of a matrix given as a column-major tuple.
MatTransposed(A) ==
  [i \in 1 .. 16 |-> A[4 * ((i - 1) % 4) + ((i - 1) \div 4) + 1]]

\* C5: static Mat4.multiply(a, b, out) leaves in out the product of the
\* original a and b, the same 16 components whether out is a, is b or is a
\* distinct matrix; and instance a.multiply(b), a.multiply(a) included,
\* leaves a * b in a.
C5_MultiplyOutMayAlias ==
  [][ /\ op'.name = "Mat4.multiply"
          => /\ heap'.mats[op'.this] = MatProduct(heap.mats[op'.a], heap.mats[op'.b])
             /\ LET D == Mat4_multiplyStatic(Begin(heap), op'.a, op'.b, Null)
                IN  heap'.mats[op'.this] = D.mats[LastMat(D)]
      /\ op'.name = "multiply"
          => heap'.mats[op'.this] = MatProduct(heap.mats[op'.this], heap.mats[op'.b]) ]_vars

\* Static multiply wrote its result over its first input, a and b being
\* different matrices that do not commute.
C5_Witness ==
  /\ op.name = "Mat4.multiply"
  /\ op.out = op.a
  /\ op.a # op.b
  /\ heap.mats[op.out] # heap.mats[op.b]
  /\ heap.mats[op.b] # Mat4Identity

\* C6: static Mat4.transpose(m, out) leaves in out the transpose of the
\* original m, also when out is the same object as m, as instance
\* m.transpose() does.
C6_TransposeOutMayAlias ==
  [][ /\ op'.name = "Mat4.transpose"
          => heap'.mats[op'.this] = MatTransposed(heap.mats[op'.a])
      /\ op'.name = "transpose"
          => heap'.mats[op'.this] = MatTransposed(heap.mats[op'.this]) ]_vars

\* C11: invert() on a matrix whose determinant lies strictly between -EPSILON
\* and EPSILON changes none of the 16 components, of that matrix or any other,
\* and allocates nothing: the matrix it was called on is returned as it was.
C11_InvertSingularNoOp ==
  [][ (op'.name = "invert" /\ NearZero(Mat4_det(heap.mats[op'.this])))
        => /\ heap'.mats = heap.mats
           /\ heap'.allocs = 0 ]_vars

\* invert() was called on a matrix with determinant 0 that is not the zero
\* matrix (the determinants of the model are integers, 0 is the one near zero).
C11_Witness ==
  /\ op.name = "invert"
  /\ Mat4_det(heap.mats[op.this]) = 0
  /\ heap.mats[op.this][6] = 4

\* Mat4.multiply(m, m.clone().invert()) for the matrix m of the heap.
TimesOwnInverse(H, m) ==
  LET H1 == Mat4_clone(H, m)
      H2 == Mat4_invert(H1, LastMat(H1))
      H3 == Mat4_multiplyStatic(H2, m, LastMat(H2), Null)
  IN  H3.mats[LastMat(H3)]

\* C12: for every matrix m, affine or not, whose determinant is not near zero
\* (here 1 or -1, for which 1.0 / det is exact), Mat4.multiply(m,
\* m.clone().invert()) is the identity; and invert() leaves in m a matrix
\* whose product with the original m is the identity.
C12_InvertIsInverse ==
  /\ [](\A m \in MatIds :
          (SmallMat(heap.mats[m]) /\ Mat4_det(heap.mats[m]) \in { -1, 1 })
            => TimesOwnInverse(heap, m) = Mat4Identity)
  /\ [][ (op'.name = "invert" /\ Mat4_det(heap.mats[op'.this]) \in { -1, 1 })
           => MatProduct(heap.mats[op'.this], heap'.mats[op'.this]) = Mat4Identity ]_vars

\* invert() was called on a matrix that is not affine (m03 is not 0), has
\* determinant -1 and is not its own inverse.
C12_Witness ==
  /\ op.name = "invert"
  /\ Mat4_det(heap.mats[op.this]) = -1
  /\ heap.mats[op.this][4] # 0
  /\ MatProduct(heap.mats[op.this], heap.mats[op.this]) # Mat4Identity

(***************************************************************************)
(* normalize and cross (Vec2.ts, Vec3.ts, Vec4.ts).  In this part a        *)
(* component c stands for the number c / VecUnit, a unit fine enough for   *)
(* non-zero vectors no longer than EPSILON.  The operations are applied to *)
(* vectors whose length and quotients are exact in this unit, where        *)
(* x * (1.0 / len) is x / len.                                             *)
(***************************************************************************)
VecUnit == 10 * EpsDen

MaxComponent == 200

NewVec2(H, x, y) == [Alloc(H) EXCEPT !.vecs = Append(@, <<x, y>>)]

NewVec4(H, x, y, z, w) == [Alloc(H) EXCEPT !.vecs = Append(@, <<x, y, z, w>>)]

\* x*x + y*y (+ z*z (+ w*w)), in units of 1 / VecUnit^2
SumSq(v) ==
  CASE Len(v) = 2 -> v[1] * v[1] + v[2] * v[2]
    [] Len(v) = 3 -> v[1] * v[1] + v[2] * v[2] + v[3] * v[3]
    [] OTHER -> v[1] * v[1] + v[2] * v[2] + v[3] * v[3] + v[4] * v[4]

\* this.length(): Math.sqrt of the sum of squares
VecLength(v) == SqrtSearch(SumSq(v), 0, 4 * MaxComponent)

\* len > EPSILON
GtEpsilon(len) == len * EpsDen > VecUnit

\* x * invLen with invLen = 1.0 / len
TimesInvLen(x, len) == (x * VecUnit) \div len

\* The vectors on which the sum of squares, the root and the quotients are exact.
ExactNormalize(v) ==
  /\ \A i \in 1 .. Len(v) : v[i] <= MaxComponent /\ -v[i] <= MaxComponent
  /\ VecLength(v) * VecLength(v) = SumSq(v)
  /\ GtEpsilon(VecLength(v))
       => \A i \in 1 .. Len(v) : (v[i] * VecUnit) % VecLength(v) = 0

Vec2_normalize(H, this) ==
  LET len == VecLength(H.vecs[this])
      H1 == [H EXCEPT !.vecs[this][1] = TimesInvLen(@, len)]
  IN  IF GtEpsilon(len)
      THEN [H1 EXCEPT !.vecs[this][2] = TimesInvLen(@, len)]
      ELSE H

Vec2_normalizeStatic(H, v, out) ==
  LET o == IF out = Null THEN Len(H.vecs) + 1 ELSE out
      H0 == IF out = Null THEN NewVec2(H, 0, 0) ELSE H
      len == VecLength(H0.vecs[v])
      H1 == [H0 EXCEPT !.vecs[o][1] = TimesInvLen(H0.vecs[v][1], len)]
      Z1 == [H0 EXCEPT !.vecs[o][1] = 0]
  IN  IF GtEpsilon(len)
      THEN [H1 EXCEPT !.vecs[o][2] = TimesInvLen(H1.vecs[v][2], len)]
      ELSE [Z1 EXCEPT !.vecs[o][2] = 0]

Vec3_normalize(H, this) ==
  LET len == VecLength(H.vecs[this])
      H1 == [H EXCEPT !.vecs[this][1] = TimesInvLen(@, len)]
      H2 == [H1 EXCEPT !.vecs[this][2] = TimesInvLen(@, len)]
  IN  IF GtEpsilon(len)
      THEN [H2 EXCEPT !.vecs[this][3] = TimesInvLen(@, len)]
      ELSE H

Vec3_normalizeStatic(H, v, out) ==
  LET o == IF out = Null THEN Len(H.vecs) + 1 ELSE out
      H0 == IF out = Null THEN NewVec3(H, 0, 0, 0) ELSE H
      len == VecLength(H0.vecs[v])
      H1 == [H0 EXCEPT !.vecs[o][1] = TimesInvLen(H0.vecs[v][1], len)]
      H2 == [H1 EXCEPT !.vecs[o][2] = TimesInvLen(H1.vecs[v][2], len)]
      Z1 == [H0 EXCEPT !.vecs[o][1] = 0]
      Z2 == [Z1 EXCEPT !.vecs[o][2] = 0]
  IN  IF GtEpsilon(len)
      THEN [H2 EXCEPT !.vecs[o][3] = TimesInvLen(H2.vecs[v][3], len)]
      ELSE [Z2 EXCEPT !.vecs[o][3] = 0]

Vec4_normalize(H, this) ==
  LET len == VecLength(H.vecs[this])
      H1 == [H EXCEPT !.vecs[this][1] = TimesInvLen(@, len)]
      H2 == [H1 EXCEPT !.vecs[this][2] = TimesInvLen(@, len)]
      H3 == [H2 EXCEPT !.vecs[this][3] = TimesInvLen(@, len)]
  IN  IF GtEpsilon(len)
      THEN [H3 EXCEPT !.vecs[this][4] = TimesInvLen(@, len)]
      ELSE H

Vec4_normalizeStatic(H, v, out) ==
  LET o == IF out = Null THEN Len(H.vecs) + 1 ELSE out
      H0 == IF out = Null THEN NewVec4(H, 0, 0, 0, 0) ELSE H
      len == VecLength(H0.vecs[v])
      H1 == [H0 EXCEPT !.vecs[o][1] = TimesInvLen(H0.vecs[v][1], len)]
      H2 == [H1 EXCEPT !.vecs[o][2] = TimesInvLen(H1.vecs[v][2], len)]
      H3 == [H2 EXCEPT !.vecs[o][3] = TimesInvLen(H2.vecs[v][3], len)]
      Z1 == [H0 EXCEPT !.vecs[o][1] = 0]
      Z2 == [Z1 EXCEPT !.vecs[o][2] = 0]
      Z3 == [Z2 EXCEPT !.vecs[o][3] = 0]
  IN  IF GtEpsilon(len)
      THEN [H3 EXCEPT !.vecs[o][4] = TimesInvLen(H3.vecs[v][4], len)]
      ELSE [Z3 EXCEPT !.vecs[o][4] = 0]

\* this.clone(): the clone is the last vector of the heap
Vec3_clone(H, this) == NewVec3(H, H.vecs[this][1], H.vecs[this][2], H.vecs[this][3])

\* this.crossVectors(a, b): a and b are read into locals first
Vec3_crossVectors(H, this, a, b) ==
  LET A == H.vecs[a]
      B == H.vecs[b]
      H1 == [H EXCEPT !.vecs[this][1] = A[2] * B[3] - A[3] * B[2]]
      H2 == [H1 EXCEPT !.vecs[this][2] = A[3] * B[1] - A[1] * B[3]]
  IN  [H2 EXCEPT !.vecs[this][3] = A[1] * B[2] - A[2] * B[1]]

\* this.cross(v): this.crossVectors(this.clone(), v)
Vec3_cross(H, this, v) ==
  LET H1 == Vec3_clone(H, this)
  IN  Vec3_crossVectors(H1, this, LastVec(H1), v)

(***************************************************************************)
(* The vector machine: the caller creates up to MaxVecs vectors of two,    *)
(* three or four components and normalizes them in place or through the    *)
(* static form, with out any vector of the same class or null.             *)
(***************************************************************************)
MaxVecs == 3

InVec2 == { <<0, 0>>, <<3, 4>>, <<6, -8>>, <<30, 40>> }
InVec3 == { <<0, 0, 0>>, <<0, -3, 4>>, <<60, 0, 80>> }
InVec4 == { <<1, 1, 1, 1>>, <<10, -10, 10, 10>> }

\* The vectors of n components.
VecIds(n) == { i \in 1 .. Len(heap.vecs) : Len(heap.vecs[i]) = n }

CanAllocVec == Len(heap.vecs) < MaxVecs

OutVecArgs(n) == IF CanAllocVec THEN VecIds(n) \cup { Null } ELSE VecIds(n)

\* The vector a static operation writes: out, or a new one when out is null.
OutVec(H, out) == IF out = Null THEN Len(H.vecs) + 1 ELSE out

InitVec ==
  /\ heap = EmptyHeap
  /\ op = NoOp
  /\ firstRef = <<>>
  /\ steps = 0

CreateVec2 ==
  /\ CanAllocVec
  /\ \E v \in InVec2 :
       Call(NewVec2(Begin(heap), v[1], v[2]),
            [NoOp EXCEPT !.name = "new Vec2", !.this = Len(heap.vecs) + 1])

CreateVec3 ==
  /\ CanAllocVec
  /\ \E v \in InVec3 :
       Call(NewVec3(Begin(heap), v[1], v[2], v[3]),
            [NoOp EXCEPT !.name = "new Vec3", !.this = Len(heap.vecs) + 1])

CreateVec4 ==
  /\ CanAllocVec
  /\ \E v \in InVec4 :
       Call(NewVec4(Begin(heap), v[1], v[2], v[3], v[4]),
            [NoOp EXCEPT !.name = "new Vec4", !.this = Len(heap.vecs) + 1])

Normalize2 ==
  \E this \in VecIds(2) :
    /\ ExactNormalize(heap.vecs[this])
    /\ Call(Vec2_normalize(Begin(heap), this),
            [NoOp EXCEPT !.name = "normalize", !.this = this, !.inplace = TRUE])

Normalize3 ==
  \E this \in VecIds(3) :
    /\ ExactNormalize(heap.vecs[this])
    /\ Call(Vec3_normalize(Begin(heap), this),
            [NoOp EXCEPT !.name = "normalize", !.this = this, !.inplace = TRUE])

Normalize4 ==
  \E this \in VecIds(4) :
    /\ ExactNormalize(heap.vecs[this])
    /\ Call(Vec4_normalize(Begin(heap), this),
            [NoOp EXCEPT !.name = "normalize", !.this = this, !.inplace = TRUE])

NormalizeStatic2 ==
  \E v \in VecIds(2), out \in OutVecArgs(2) :
    /\ ExactNormalize(heap.vecs[v])
    /\ Call(Vec2_normalizeStatic(Begin(heap), v, out),
            [NoOp EXCEPT !.name = "Vec2.normalize", !.this = OutVec(heap, out),
                         !.a = v, !.out = out])

NormalizeStatic3 ==
  \E v \in VecIds(3), out \in OutVecArgs(3) :
    /\ ExactNormalize(heap.vecs[v])
    /\ Call(Vec3_normalizeStatic(Begin(heap), v, out),
            [NoOp EXCEPT !.name = "Vec3.normalize", !.this = OutVec(heap, out),
                         !.a = v, !.out = out])

NormalizeStatic4 ==
  \E v \in VecIds(4), out \in OutVecArgs(4) :
    /\ ExactNormalize(heap.vecs[v])
    /\ Call(Vec4_normalizeStatic(Begin(heap), v, out),
            [NoOp EXCEPT !.name = "Vec4.normalize", !.this = OutVec(heap, out),
                         !.a = v, !.out = out])

\* The components of both vectors are small enough for the products.
Cross ==
  /\ CanAllocVec
  /\ \E this \in VecIds(3), v \in VecIds(3) :
       /\ \A i \in 1 .. 3 : /\ heap.vecs[this][i] \in -MaxComponent .. MaxComponent
                             /\ heap.vecs[v][i] \in -MaxComponent .. MaxComponent
       /\ Call(Vec3_cross(Begin(heap), this, v),
               [NoOp EXCEPT !.name = "cross", !.this = this, !.a = v, !.inplace = TRUE])

NextVec ==
  \/ CreateVec2 \/ CreateVec3 \/ CreateVec4
  \/ Normalize2 \/ Normalize3 \/ Normalize4
  \/ NormalizeStatic2 \/ NormalizeStatic3 \/ NormalizeStatic4
  \/ Cross

SpecVec == InitVec /\ [][NextVec]_vars

\* What the in-place form makes of the vector v of heap H.
NormalizedInPlace(H, v) ==
  LET R == CASE Len(H.vecs[v]) = 2 -> Vec2_normalize(H, v)
             [] Len(H.vecs[v]) = 3 -> Vec3_normalize(H, v)
             [] OTHER -> Vec4_normalize(H, v)
  IN  R.vecs[v]

\* C9: for every Vec2, Vec3 and Vec4 value the static form normalize(v)
\* yields the components the in-place form v.normalize() yields, also when
\* the length of v is at most EPSILON.
C9_NormalizeFormsAgree ==
  [][ op'.name \in { "Vec2.normalize", "Vec3.normalize", "Vec4.normalize" }
        => heap'.vecs[op'.this] = NormalizedInPlace(heap, op'.a) ]_vars

(***************************************************************************)
(* Quat (Quat.ts), continued: premultiply, the static forms and the        *)
(* default out arguments.                                                  *)
(***************************************************************************)
\* this.premultiply(q): a is q and b is this
Quat_premultiply(H, this, q) ==
  [H EXCEPT !.quats[this] = HamiltonProduct(H.quats[q], H.quats[this])]

\* The quaternion a static operation writes: out, or new Quat() when null.
OutQuat(H, out) == IF out = Null THEN Len(H.quats) + 1 ELSE out

WithOutQuat(H, out) == IF out = Null THEN NewQuat(H, 0, 0, 0, 1) ELSE H

\* A static multiply that takes its operands in the other order.
Quat_multiplyStatic_Swapped(H, a, b, out) ==
  LET H1 == WithOutQuat(H, out)
  IN  [H1 EXCEPT !.quats[OutQuat(H, out)] = HamiltonProduct(H1.quats[b], H1.quats[a])]

\* static Quat.multiply(a, b, out): a and b are read before out is written
Quat_multiplyStatic(H, a, b, out) ==
  LET H1 == WithOutQuat(H, out)
  IN  [H1 EXCEPT !.quats[OutQuat(H, out)] = HamiltonProduct(H1.quats[a], H1.quats[b])]

\* this.transformVec3(v, out), out being null or a Vec3
Quat_transformVec3Out(H, this, v, out) ==
  LET H1 == IF out = Null THEN NewVec3(H, 0, 0, 0) ELSE H
  IN  Quat_transformVec3(H1, this, v, OutVec(H, out))

\* static Quat.invert(q, out)
Quat_invertStatic(H, q, out) ==
  LET H1 == WithOutQuat(H, out)
      o == OutQuat(H, out)
      v == H1.quats[q]
      len2 == Quat_lengthSq(v)
  IN  IF LtEpsilon(len2) THEN [H1 EXCEPT !.quats[o] = <<0, 0, 0, 1>>]
      ELSE LET invLen2 == Recip(len2)
           IN  [H1 EXCEPT !.quats[o] =
                  << (-v[1]) * invLen2, (-v[2]) * invLen2, (-v[3]) * invLen2, v[4] * invLen2 >>]

\* static Quat.slerp(a, b, t, out), out being null or a Quat
Quat_slerpStaticOut(H, a, b, t, out) ==
  Quat_slerpStatic(WithOutQuat(H, out), a, b, t, OutQuat(H, out))

(***************************************************************************)
(* The quaternion machine: the caller holds two quaternions and a vector   *)
(* and multiplies, inverts, interpolates and applies them, in place or     *)
(* through the static forms with out any quaternion or null.               *)
(***************************************************************************)
MaxQuats == 3

\* The calls the machine makes after the caller has built its operands.
MaxQuatSteps == 2

\* The largest component the machine multiplies.
MaxQuatComponent == 6

InQuatValue ==
  { <<0, 0, 0, 1>>, <<0, 1, 0, 0>>, <<1, 0, 0, 1>>, <<0, 0, 0, 0>> }

InVecValue == { <<1, 2, 3>> }

InSlerpT == { -1, 0, 1, 2 }

QuatIds == 1 .. Len(heap.quats)

CanAllocQuat == Len(heap.quats) < MaxQuats

OutQuatArgs == IF CanAllocQuat THEN QuatIds \cup { Null } ELSE QuatIds

SmallQuat(q) == \A i \in 1 .. 4 : q[i] \in -MaxQuatComponent .. MaxQuatComponent

SmallVec(v) == \A i \in 1 .. 3 : v[i] \in -MaxComponent .. MaxComponent

\* 1.0 / len2 is exact, or the early return is taken
CanInvertQuat(q) ==
  /\ SmallQuat(q)
  /\ LtEpsilon(Quat_lengthSq(q)) \/ ExactRecip(Quat_lengthSq(q))

InitQuat ==
  /\ \E p \in InQuatValue, q \in InQuatValue, v \in InVecValue :
       heap = Begin(NewVec3(NewQuat(NewQuat(EmptyHeap, p[1], p[2], p[3], p[4]),
                                    q[1], q[2], q[3], q[4]),
                            v[1], v[2], v[3]))
  /\ op = NoOp
  /\ firstRef = <<>>
  /\ steps = 0

QuatMultiply ==
  /\ steps < MaxQuatSteps
  /\ \E this \in QuatIds, q \in QuatIds :
       /\ SmallQuat(heap.quats[this]) /\ SmallQuat(heap.quats[q])
       /\ Call(Quat_multiply(Begin(heap), this, q),
               [NoOp EXCEPT !.name = "multiply", !.this = this, !.a = q, !.inplace = TRUE])

QuatPremultiply ==
  /\ steps < MaxQuatSteps
  /\ \E this \in QuatIds, q \in QuatIds :
       /\ SmallQuat(heap.quats[this]) /\ SmallQuat(heap.quats[q])
       /\ Call(Quat_premultiply(Begin(heap), this, q),
               [NoOp EXCEPT !.name = "premultiply", !.this = this, !.a = q, !.inplace = TRUE])

QuatMultiplyStatic ==
  /\ steps < MaxQuatSteps
  /\ \E a \in QuatIds, b \in QuatIds, out \in OutQuatArgs :
       /\ SmallQuat(heap.quats[a]) /\ SmallQuat(heap.quats[b])
       /\ Call(Quat_multiplyStatic(Begin(heap), a, b, out),
               [NoOp EXCEPT !.name = "Quat.multiply", !.this = OutQuat(heap, out),
                            !.a = a, !.b = b, !.out = out])

QuatTransformVec3 ==
  /\ steps < MaxQuatSteps
  /\ \E this \in QuatIds, v \in VecIds(3), out \in OutVecArgs(3) :
       /\ SmallQuat(heap.quats[this]) /\ SmallVec(heap.vecs[v])
       /\ Call(Quat_transformVec3Out(Begin(heap), this, v, out),
               [NoOp EXCEPT !.name = "transformVec3", !.this = this, !.a = v,
                            !.out = out, !.ret = OutVec(heap, out)])

QuatInvert ==
  /\ steps < MaxQuatSteps
  /\ \E this \in QuatIds :
       /\ CanInvertQuat(heap.quats[this])
       /\ Call(Quat_invert(Begin(heap), this),
               [NoOp EXCEPT !.name = "invert", !.this = this, !.inplace = TRUE])

QuatInvertStatic ==
  /\ steps < MaxQuatSteps
  /\ \E q \in QuatIds, out \in OutQuatArgs :
       /\ CanInvertQuat(heap.quats[q])
       /\ Call(Quat_invertStatic(Begin(heap), q, out),
               [NoOp EXCEPT !.name = "Quat.invert", !.this = OutQuat(heap, out),
                            !.a = q, !.out = out])

QuatSlerp ==
  /\ steps < MaxQuatSteps
  /\ \E this \in QuatIds, q \in QuatIds, t \in InSlerpT :
       Call(Quat_slerp(Begin(heap), this, q, t),
            [NoOp EXCEPT !.name = "slerp", !.this = this, !.a = q, !.t = t, !.inplace = TRUE])

QuatSlerpStatic ==
  /\ steps < MaxQuatSteps
  /\ \E a \in QuatIds, b \in QuatIds, t \in InSlerpT, out \in OutQuatArgs :
       Call(Quat_slerpStaticOut(Begin(heap), a, b, t, out),
            [NoOp EXCEPT !.name = "Quat.slerp", !.this = OutQuat(heap, out),
                         !.a = a, !.b = b, !.t = t, !.out = out])

NextQuat ==
  \/ QuatMultiply \/ QuatPremultiply \/ QuatMultiplyStatic \/ QuatTransformVec3
  \/ QuatInvert \/ QuatInvertStatic
  \/ QuatSlerp \/ QuatSlerpStatic

SpecQuat == InitQuat /\ [][NextQuat]_vars

\* What Quat.multiply(p, q) returns in a new quaternion.
ProductOf(H, p, q) ==
  LET H1 == Quat_multiplyStatic(H, p, q, Null) IN H1.quats[LastQuat(H1)]

\* Quat.multiply(p, q).transformVec3(v)
RotatedByProduct(H, p, q, v) ==
  LET H1 == Quat_multiplyStatic(H, p, q, Null)
      H2 == Quat_transformVec3Out(H1, LastQuat(H1), v, Null)
  IN  H2.vecs[LastVec(H2)]

\* p.transformVec3(q.transformVec3(v))
RotatedTwice(H, p, q, v) ==
  LET H1 == Quat_transformVec3Out(H, q, v, Null)
      H2 == Quat_transformVec3Out(H1, p, LastVec(H1), Null)
  IN  H2.vecs[LastVec(H2)]

\* C13: for all quaternions p, q and vectors v, Quat.multiply(p, q) applied
\* to v is p applied to (q applied to v); p.multiply(q) and q.premultiply(p)
\* both leave that product in their receiver; and multiplying a quaternion
\* by the identity quaternion, on the right or on the left, leaves it
\* unchanged.
C13_MultiplyComposes ==
  /\ [](\A p \in QuatIds, q \in QuatIds, v \in VecIds(3) :
          (SmallQuat(heap.quats[p]) /\ SmallQuat(heap.quats[q]) /\ SmallVec(heap.vecs[v]))
            => RotatedByProduct(heap, p, q, v) = RotatedTwice(heap, p, q, v))
  /\ [][ /\ op'.name = "multiply"
           => heap'.quats[op'.this] = ProductOf(heap, op'.this, op'.a)
         /\ op'.name = "premultiply"
           => heap'.quats[op'.this] = ProductOf(heap, op'.a, op'.this)
         /\ (op'.name \in { "multiply", "premultiply" } /\ heap.quats[op'.a] = <<0, 0, 0, 1>>)
           => heap'.quats[op'.this] = heap.quats[op'.this] ]_vars

\* q.premultiply(p) has run with operands that do not commute, and the
\* product turns the vector differently from the product in the other order.
C13_Witness ==
  /\ op.name = "premultiply"
  /\ op.this # op.a
  /\ \E x \in InQuatValue, v \in VecIds(3) :
       /\ heap.quats[op.this] = HamiltonProduct(heap.quats[op.a], x)
       /\ heap.quats[op.this] # HamiltonProduct(x, heap.quats[op.a])
       /\ RotateVec(heap.quats[op.this], heap.vecs[v])
            # RotateVec(HamiltonProduct(x, heap.quats[op.a]), heap.vecs[v])
       /\ RotateVec(heap.quats[op.this], heap.vecs[v])
            = RotateVec(heap.quats[op.a], RotateVec(x, heap.vecs[v]))

\* C14: for all quaternions a and b, a.slerp(b, t) with t <= 0 leaves the
\* components of a as they are and with t >= 1 makes a an exact copy of b;
\* Quat.slerp(a, b, t) with a fresh out returns the components of a for
\* t <= 0 and those of b for t >= 1, and leaves a and b alone.
C14_SlerpEndpoints ==
  [][ /\ (op'.name = "slerp" /\ op'.t <= 0) => heap'.quats = heap.quats
      /\ (op'.name = "slerp" /\ op'.t >= 1)
           => heap'.quats = [heap.quats EXCEPT ![op'.this] = heap.quats[op'.a]]
      /\ (op'.name = "Quat.slerp" /\ op'.out = Null /\ op'.t <= 0)
           => heap'.quats = Append(heap.quats, heap.quats[op'.a])
      /\ (op'.name = "Quat.slerp" /\ op'.out = Null /\ op'.t >= 1)
           => heap'.quats = Append(heap.quats, heap.quats[op'.b]) ]_vars

\* Quat.slerp(a, b, 2) with a fresh out has returned b, which differs from a.
C14_Witness ==
  /\ op.name = "Quat.slerp"
  /\ op.out = Null
  /\ op.t = 2
  /\ heap.quats[op.this] = heap.quats[op.b]
  /\ heap.quats[op.a] # heap.quats[op.b]

\* The conjugate of q divided by its squared length.
ConjugateOverLengthSq(q) ==
  LET invLen2 == Recip(Quat_lengthSq(q))
  IN  << (-q[1]) * invLen2, (-q[2]) * invLen2, (-q[3]) * invLen2, q[4] * invLen2 >>

\* C15: when the squared length of q is below EPSILON, q.invert() and the
\* static Quat.invert(q) both return the components of q unchanged;
\* otherwise both return the conjugate divided by the squared length.
C15_InvertNearZeroNoOp ==
  [][ /\ op'.name = "invert"
           => heap'.quats[op'.this] =
                IF LtEpsilon(Quat_lengthSq(heap.quats[op'.this])) THEN heap.quats[op'.this]
                ELSE ConjugateOverLengthSq(heap.quats[op'.this])
      /\ op'.name = "Quat.invert"
           => heap'.quats[op'.this] =
                IF LtEpsilon(Quat_lengthSq(heap.quats[op'.a])) THEN heap.quats[op'.a]
                ELSE ConjugateOverLengthSq(heap.quats[op'.a]) ]_vars

(***************************************************************************)
(* The f64 values that are not numbers of the model: Infinity stands above *)
(* every finite value, -Infinity below, and NaN is a value of its own on   *)
(* which every comparison is false.                                        *)
(***************************************************************************)
Infinity == 1000000

NaN == 2 * Infinity

IsInf(x) == x = Infinity \/ x = -Infinity

\* a < b, a > b, a >= b, a <= b in f64
XLt(a, b) == a # NaN /\ b # NaN /\ a < b
XGt(a, b) == a # NaN /\ b # NaN /\ a > b
XGe(a, b) == a # NaN /\ b # NaN /\ a >= b
XLe(a, b) == a # NaN /\ b # NaN /\ a <= b

Sign(x) == IF x > 0 THEN 1 ELSE IF x < 0 THEN -1 ELSE 0

\* a * b in f64: 0 * Infinity is NaN
XMul(a, b) ==
  IF a = NaN \/ b = NaN THEN NaN
  ELSE IF IsInf(a) \/ IsInf(b)
       THEN IF a = 0 \/ b = 0 THEN NaN ELSE Sign(a) * Sign(b) * Infinity
       ELSE a * b

\* a - b and a + b in f64: Infinity - Infinity is NaN
XSub(a, b) ==
  IF a = NaN \/ b = NaN THEN NaN
  ELSE IF IsInf(a) THEN (IF b = a THEN NaN ELSE a)
  ELSE IF IsInf(b) THEN -b
  ELSE a - b

XAdd(a, b) == XSub(a, IF b = NaN THEN NaN ELSE -b)

\* a / b in f64, for the quotients that are integers: x / 0 is NaN for
\* x = 0 and an infinity otherwise
XDiv(a, b) ==
  IF a = NaN \/ b = NaN THEN NaN
  ELSE IF b = 0 THEN (IF a = 0 THEN NaN ELSE Sign(a) * Infinity)
  ELSE a \div b

ExactDiv(a, b) == IF b = 0 THEN TRUE ELSE a % (b * Sign(b)) = 0

(***************************************************************************)
(* AABB (AABB.ts).  A box holds references to its own min and max Vec3.    *)
(***************************************************************************)
\* new AABB(): the empty, inverted box
NewAABB(H) ==
  LET H1 == NewVec3(H, Infinity, Infinity, Infinity)
      H2 == NewVec3(H1, -Infinity, -Infinity, -Infinity)
  IN  [Alloc(H2) EXCEPT !.boxes = Append(@, [min |-> LastVec(H1), max |-> LastVec(H2)])]

LastBox(H) == Len(H.boxes)

BoxMin(H, b) == H.vecs[H.boxes[b].min]
BoxMax(H, b) == H.vecs[H.boxes[b].max]

\* AABB.fromMinMax(minX, minY, minZ, maxX, maxY, maxZ)
AABB_fromMinMax(H, lo, hi) ==
  LET H1 == NewAABB(H)
      H2 == Vec3_set(H1, H1.boxes[LastBox(H1)].min, lo[1], lo[2], lo[3])
  IN  Vec3_set(H2, H2.boxes[LastBox(H2)].max, hi[1], hi[2], hi[3])

\* if (c) v[i] = x
PutIf(H, c, v, i, x) == IF c THEN [H EXCEPT !.vecs[v][i] = x] ELSE H

\* this.union(other)
AABB_union(H, this, other) ==
  LET tmin == H.boxes[this].min  tmax == H.boxes[this].max
      omin == H.boxes[other].min omax == H.boxes[other].max
      H1 == PutIf(H, XLt(H.vecs[omin][1], H.vecs[tmin][1]), tmin, 1, H.vecs[omin][1])
      H2 == PutIf(H1, XLt(H1.vecs[omin][2], H1.vecs[tmin][2]), tmin, 2, H1.vecs[omin][2])
      H3 == PutIf(H2, XLt(H2.vecs[omin][3], H2.vecs[tmin][3]), tmin, 3, H2.vecs[omin][3])
      H4 == PutIf(H3, XGt(H3.vecs[omax][1], H3.vecs[tmax][1]), tmax, 1, H3.vecs[omax][1])
      H5 == PutIf(H4, XGt(H4.vecs[omax][2], H4.vecs[tmax][2]), tmax, 2, H4.vecs[omax][2])
  IN  PutIf(H5, XGt(H5.vecs[omax][3], H5.vecs[tmax][3]), tmax, 3, H5.vecs[omax][3])

\* An intersect that raises min and leaves max as it is.
AABB_intersect_MinOnly(H, this, other) ==
  LET tmin == H.boxes[this].min
      omin == H.boxes[other].min
      H1 == PutIf(H, XGt(H.vecs[omin][1], H.vecs[tmin][1]), tmin, 1, H.vecs[omin][1])
      H2 == PutIf(H1, XGt(H1.vecs[omin][2], H1.vecs[tmin][2]), tmin, 2, H1.vecs[omin][2])
  IN  PutIf(H2, XGt(H2.vecs[omin][3], H2.vecs[tmin][3]), tmin, 3, H2.vecs[omin][3])

\* this.intersect(other)
AABB_intersect(H, this, other) ==
  LET tmin == H.boxes[this].min  tmax == H.boxes[this].max
      omin == H.boxes[other].min omax == H.boxes[other].max
      H1 == PutIf(H, XGt(H.vecs[omin][1], H.vecs[tmin][1]), tmin, 1, H.vecs[omin][1])
      H2 == PutIf(H1, XGt(H1.vecs[omin][2], H1.vecs[tmin][2]), tmin, 2, H1.vecs[omin][2])
      H3 == PutIf(H2, XGt(H2.vecs[omin][3], H2.vecs[tmin][3]), tmin, 3, H2.vecs[omin][3])
      H4 == PutIf(H3, XLt(H3.vecs[omax][1], H3.vecs[tmax][1]), tmax, 1, H3.vecs[omax][1])
      H5 == PutIf(H4, XLt(H4.vecs[omax][2], H4.vecs[tmax][2]), tmax, 2, H4.vecs[omax][2])
  IN  PutIf(H5, XLt(H5.vecs[omax][3], H5.vecs[tmax][3]), tmax, 3, H5.vecs[omax][3])

\* The box a static operation writes: out, or new AABB() when out is null.
OutBox(H, out) == IF out = Null THEN Len(H.boxes) + 1 ELSE out

WithOutBox(H, out) == IF out = Null THEN NewAABB(H) ELSE H

\* out.min[i] = a.min[i] > b.min[i] ? a.min[i] : b.min[i], and max with <
IntersectionField(H, a, b, i) ==
  LET lo == IF XGt(BoxMin(H, a)[i], BoxMin(H, b)[i]) THEN BoxMin(H, a)[i] ELSE BoxMin(H, b)[i]
      hi == IF XLt(BoxMax(H, a)[i], BoxMax(H, b)[i]) THEN BoxMax(H, a)[i] ELSE BoxMax(H, b)[i]
  IN  [min |-> lo, max |-> hi]

\* static AABB.intersection(a, b, out): the three min fields, then the three
\* max fields, each read from a and b as they are at that moment
AABB_intersectionStatic(H, a, b, out) ==
  LET H0 == WithOutBox(H, out)
      o == OutBox(H, out)
      H1 == [H0 EXCEPT !.vecs[H0.boxes[o].min][1] = IntersectionField(H0, a, b, 1).min]
      H2 == [H1 EXCEPT !.vecs[H0.boxes[o].min][2] = IntersectionField(H1, a, b, 2).min]
      H3 == [H2 EXCEPT !.vecs[H0.boxes[o].min][3] = IntersectionField(H2, a, b, 3).min]
      H4 == [H3 EXCEPT !.vecs[H0.boxes[o].max][1] = IntersectionField(H3, a, b, 1).max]
      H5 == [H4 EXCEPT !.vecs[H0.boxes[o].max][2] = IntersectionField(H4, a, b, 2).max]
  IN  [H5 EXCEPT !.vecs[H0.boxes[o].max][3] = IntersectionField(H5, a, b, 3).max]

\* out.min[i] = a.min[i] < b.min[i] ? a.min[i] : b.min[i], and max with >
UnionField(H, a, b, i) ==
  LET lo == IF XLt(BoxMin(H, a)[i], BoxMin(H, b)[i]) THEN BoxMin(H, a)[i] ELSE BoxMin(H, b)[i]
      hi == IF XGt(BoxMax(H, a)[i], BoxMax(H, b)[i]) THEN BoxMax(H, a)[i] ELSE BoxMax(H, b)[i]
  IN  [min |-> lo, max |-> hi]

\* A static union that writes the min of out and leaves its max.
AABB_unionStatic_MinOnly(H, a, b, out) ==
  LET H0 == WithOutBox(H, out)
      o == OutBox(H, out)
      H1 == [H0 EXCEPT !.vecs[H0.boxes[o].min][1] = UnionField(H0, a, b, 1).min]
      H2 == [H1 EXCEPT !.vecs[H0.boxes[o].min][2] = UnionField(H1, a, b, 2).min]
  IN  [H2 EXCEPT !.vecs[H0.boxes[o].min][3] = UnionField(H2, a, b, 3).min]

\* static AABB.union(a, b, out)
AABB_unionStatic(H, a, b, out) ==
  LET H0 == WithOutBox(H, out)
      o == OutBox(H, out)
      H1 == [H0 EXCEPT !.vecs[H0.boxes[o].min][1] = UnionField(H0, a, b, 1).min]
      H2 == [H1 EXCEPT !.vecs[H0.boxes[o].min][2] = UnionField(H1, a, b, 2).min]
      H3 == [H2 EXCEPT !.vecs[H0.boxes[o].min][3] = UnionField(H2, a, b, 3).min]
      H4 == [H3 EXCEPT !.vecs[H0.boxes[o].max][1] = UnionField(H3, a, b, 1).max]
      H5 == [H4 EXCEPT !.vecs[H0.boxes[o].max][2] = UnionField(H4, a, b, 2).max]
  IN  [H5 EXCEPT !.vecs[H0.boxes[o].max][3] = UnionField(H5, a, b, 3).max]

\* A box as the pair of its min and max values.
BoxValue(H, b) == <<BoxMin(H, b), BoxMax(H, b)>>

\* box.isEmpty()
IsEmptyValue(B) ==
  XLt(B[2][1], B[1][1]) \/ XLt(B[2][2], B[1][2]) \/ XLt(B[2][3], B[1][3])

AABB_isEmpty(H, this) == IsEmptyValue(BoxValue(H, this))

\* this.containsAABB(other)
ContainsValue(T, O) ==
  \A i \in 1 .. 3 : XGe(O[1][i], T[1][i]) /\ XLe(O[2][i], T[2][i])

AABB_containsAABB(H, this, other) == ContainsValue(BoxValue(H, this), BoxValue(H, other))

\* this.intersectsAABB(other)
IntersectsValue(T, O) ==
  \A i \in 1 .. 3 : XGe(T[2][i], O[1][i]) /\ XLe(T[1][i], O[2][i])

AABB_intersectsAABB(H, this, other) == IntersectsValue(BoxValue(H, this), BoxValue(H, other))

\* this.containsPoint(x, y, z)
AABB_containsPoint(H, this, p) ==
  \A i \in 1 .. 3 : XGe(p[i], BoxMin(H, this)[i]) /\ XLe(p[i], BoxMax(H, this)[i])

(***************************************************************************)
(* The AABB machine: the caller creates up to MaxBoxes boxes, empty or     *)
(* from bounds, and unites and intersects them in place or through the     *)
(* static forms, with out any box or null.                                 *)
(***************************************************************************)
MaxBoxes == 3

\* Bounds of boxes: a cube, a box touching it on a face, a box apart from
\* both, a segment inside the cube, and an inverted (empty) box.
InBox ==
  { << <<0, 0, 0>>, <<2, 2, 2>> >>,
    << <<2, 0, 0>>, <<3, 2, 2>> >>,
    << <<4, -1, 0>>, <<5, 1, 1>> >>,
    << <<1, 1, 1>>, <<1, 3, 1>> >>,
    << <<3, 0, 0>>, <<1, 2, 2>> >> }

BoxIds == 1 .. Len(heap.boxes)

CanAllocBox == Len(heap.boxes) < MaxBoxes

OutBoxArgs == IF CanAllocBox THEN BoxIds \cup { Null } ELSE BoxIds

InitBox ==
  /\ heap = EmptyHeap
  /\ op = NoOp
  /\ firstRef = <<>>
  /\ steps = 0

BoxEmpty ==
  /\ CanAllocBox
  /\ Call(NewAABB(Begin(heap)), [NoOp EXCEPT !.name = "AABB.empty", !.this = Len(heap.boxes) + 1])

BoxFromMinMax ==
  /\ CanAllocBox
  /\ \E B \in InBox :
       Call(AABB_fromMinMax(Begin(heap), B[1], B[2]),
            [NoOp EXCEPT !.name = "AABB.fromMinMax", !.this = Len(heap.boxes) + 1])

BoxUnion ==
  \E this \in BoxIds, other \in BoxIds :
    Call(AABB_union(Begin(heap), this, other),
         [NoOp EXCEPT !.name = "union", !.this = this, !.a = this, !.b = other, !.inplace = TRUE])

BoxIntersect ==
  \E this \in BoxIds, other \in BoxIds :
    Call(AABB_intersect(Begin(heap), this, other),
         [NoOp EXCEPT !.name = "intersect", !.this = this, !.a = this, !.b = other,
                      !.inplace = TRUE])

BoxUnionStatic ==
  \E a \in BoxIds, b \in BoxIds, out \in OutBoxArgs :
    Call(AABB_unionStatic(Begin(heap), a, b, out),
         [NoOp EXCEPT !.name = "AABB.union", !.this = OutBox(heap, out), !.a = a, !.b = b,
                      !.out = out])

BoxIntersectionStatic ==
  \E a \in BoxIds, b \in BoxIds, out \in OutBoxArgs :
    Call(AABB_intersectionStatic(Begin(heap), a, b, out),
         [NoOp EXCEPT !.name = "AABB.intersection", !.this = OutBox(heap, out), !.a = a,
                      !.b = b, !.out = out])

NextBox ==
  \/ BoxEmpty \/ BoxFromMinMax
  \/ BoxUnion \/ BoxIntersect
  \/ BoxUnionStatic \/ BoxIntersectionStatic

SpecBox == InitBox /\ [][NextBox]_vars

\* The smaller and the larger of two f64 values, neither being NaN.
MinOf(x, y) == IF x < y THEN x ELSE y
MaxOf(x, y) == IF x > y THEN x ELSE y

\* C16: for all boxes a and b, the empty ones included, the box left by
\* a.union(b) and the box returned by AABB.union(a, b) contains a and
\* contains b by containsAABB, and its min is the componentwise minimum of
\* the two mins and its max the componentwise maximum of the two maxs.
C16_UnionContainsBoth ==
  [][ op'.name \in { "union", "AABB.union" }
        => LET A == BoxValue(heap, op'.a)
               B == BoxValue(heap, op'.b)
               U == BoxValue(heap', op'.this)
           IN  /\ ContainsValue(U, A)
               /\ ContainsValue(U, B)
               /\ \A i \in 1 .. 3 : /\ U[1][i] = MinOf(A[1][i], B[1][i])
                                    /\ U[2][i] = MaxOf(A[2][i], B[2][i]) ]_vars

\* AABB.union(a, b) with a fresh out has run on the empty box a of
\* new AABB() and a box b that is not empty: the union is b.
C16_Witness ==
  /\ op.name = "AABB.union"
  /\ op.out = Null
  /\ BoxValue(heap, op.a) = << <<Infinity, Infinity, Infinity>>, <<-Infinity, -Infinity, -Infinity>> >>
  /\ ~AABB_isEmpty(heap, op.b)
  /\ BoxValue(heap, op.this) = BoxValue(heap, op.b)
  /\ AABB_containsAABB(heap, op.this, op.a)

\* C17: for boxes a and b that are not empty, the box left by a.intersect(b)
\* and the box returned by AABB.intersection(a, b) is empty by isEmpty()
\* exactly when a.intersectsAABB(b) is false; boxes that meet only on a
\* boundary give a box that is not empty and has min = max on that axis.
C17_IntersectEmptyIffDisjoint ==
  [][ (/\ op'.name \in { "intersect", "AABB.intersection" }
       /\ ~AABB_isEmpty(heap, op'.a)
       /\ ~AABB_isEmpty(heap, op'.b))
        => LET R == BoxValue(heap', op'.this)
           IN  /\ IsEmptyValue(R) <=> ~AABB_intersectsAABB(heap, op'.a, op'.b)
               /\ \A i \in 1 .. 3 :
                    (/\ AABB_intersectsAABB(heap, op'.a, op'.b)
                     /\ BoxMax(heap, op'.a)[i] = BoxMin(heap, op'.b)[i])
                      => ~IsEmptyValue(R) /\ R[1][i] = R[2][i] ]_vars

\* AABB.intersection(a, b) with a fresh out has run on two boxes that touch
\* on a face: the result is the face, flat and not empty.
C17_Witness ==
  /\ op.name = "AABB.intersection"
  /\ op.out = Null
  /\ ~AABB_isEmpty(heap, op.a)
  /\ ~AABB_isEmpty(heap, op.b)
  /\ BoxMax(heap, op.a)[1] = BoxMin(heap, op.b)[1]
  /\ BoxValue(heap, op.this) = << <<2, 0, 0>>, <<2, 2, 2>> >>
  /\ ~AABB_isEmpty(heap, op.this)

\* a.intersect(b) has run on two boxes that are apart: the result is
\* inverted.
C17_DisjointReached ==
  /\ op.name = "intersect"
  /\ AABB_isEmpty(heap, op.this)
  /\ BoxValue(heap, op.this) = << <<4, 0, 0>>, <<2, 1, 1>> >>

(***************************************************************************)
(* Ray (Ray.ts).  A ray holds references to its own origin and direction.  *)
(* Its components are integers: a direction is normalized from a vector    *)
(* whose length is 0, 1, 2 or 4, for which 1.0 / len and the products are  *)
(* exact.                                                                  *)
(***************************************************************************)
\* this.direction.normalize(): Vec3.normalize with the number 1 as unit
Direction_normalize(H, d) ==
  LET len == VecLength(H.vecs[d])
      H1 == [H EXCEPT !.vecs[d][1] = @ \div len]
      H2 == [H1 EXCEPT !.vecs[d][2] = @ \div len]
  IN  IF len * EpsDen > 1
      THEN [H2 EXCEPT !.vecs[d][3] = @ \div len]
      ELSE H

\* The largest component of a vector that becomes a direction.
MaxDirection == 4

\* The directions on which normalize is exact.
ExactDirection(v) ==
  /\ \A i \in 1 .. 3 : v[i] \in -MaxDirection .. MaxDirection
  /\ VecLength(v) \in { 0, 1, 2, 4 }
  /\ VecLength(v) * VecLength(v) = SumSq(v)
  /\ \A i \in 1 .. 3 : ExactDiv(v[i], VecLength(v))

\* new Ray()
NewRay(H) ==
  LET H1 == NewVec3(H, 0, 0, 0)
      H2 == NewVec3(H1, 0, 0, 1)
  IN  [Alloc(H2) EXCEPT !.rays = Append(@, [origin |-> LastVec(H1), direction |-> LastVec(H2)])]

LastRay(H) == Len(H.rays)

Origin(H, r) == H.rays[r].origin
Direction(H, r) == H.rays[r].direction

\* this.set(ox, oy, oz, dx, dy, dz)
Ray_set(H, this, o, d) ==
  LET H1 == Vec3_set(H, Origin(H, this), o[1], o[2], o[3])
      H2 == Vec3_set(H1, Direction(H1, this), d[1], d[2], d[3])
  IN  Direction_normalize(H2, Direction(H2, this))

\* Ray.create(ox, oy, oz, dx, dy, dz)
Ray_create(H, o, d) ==
  LET H1 == NewRay(H) IN Ray_set(H1, LastRay(H1), o, d)

\* Ray.fromVecs(origin, direction)
Ray_fromVecs(H, origin, direction) ==
  LET H1 == NewRay(H)
      r == LastRay(H1)
      H2 == Vec3_copy(H1, Origin(H1, r), origin)
      H3 == Vec3_copy(H2, Direction(H2, r), direction)
  IN  Direction_normalize(H3, Direction(H3, r))

\* this.lookAt(x, y, z)
Ray_lookAt(H, this, p) ==
  LET d == Direction(H, this)
      o == Origin(H, this)
      H1 == [H EXCEPT !.vecs[d][1] = p[1] - H.vecs[o][1]]
      H2 == [H1 EXCEPT !.vecs[d][2] = p[2] - H1.vecs[o][2]]
      H3 == [H2 EXCEPT !.vecs[d][3] = p[3] - H2.vecs[o][3]]
  IN  Direction_normalize(H3, d)

\* this.lookAtVec(target)
Ray_lookAtVec(H, this, target) == Ray_lookAt(H, this, H.vecs[target])

\* Ray.fromPoints(from, to)
Ray_fromPoints(H, from, to) ==
  LET H1 == NewRay(H)
      r == LastRay(H1)
      d == Direction(H1, r)
      H2 == Vec3_copy(H1, Origin(H1, r), from)
      H3 == [H2 EXCEPT !.vecs[d][1] = H2.vecs[to][1] - H2.vecs[from][1]]
      H4 == [H3 EXCEPT !.vecs[d][2] = H3.vecs[to][2] - H3.vecs[from][2]]
      H5 == [H4 EXCEPT !.vecs[d][3] = H4.vecs[to][3] - H4.vecs[from][3]]
  IN  Direction_normalize(H5, d)

\* this.copy(src): the direction is copied as it is
Ray_copy(H, this, src) ==
  LET H1 == Vec3_copy(H, Origin(H, this), Origin(H, src))
  IN  Vec3_copy(H1, Direction(H1, this), Direction(H1, src))

\* this.clone()
Ray_clone(H, this) ==
  LET H1 == NewRay(H) IN Ray_copy(H1, LastRay(H1), this)

\* this.setDirection(x, y, z)
Ray_setDirection(H, this, d) ==
  Direction_normalize(Vec3_set(H, Direction(H, this), d[1], d[2], d[3]), Direction(H, this))

\* this.setDirectionVec(v)
Ray_setDirectionVec(H, this, v) ==
  Direction_normalize(Vec3_copy(H, Direction(H, this), v), Direction(H, this))

\* this.getPoint(t): the components written to out
Ray_getPoint(H, this, t) ==
  LET o == H.vecs[Origin(H, this)]
      d == H.vecs[Direction(H, this)]
  IN  << XAdd(o[1], XMul(d[1], t)), XAdd(o[2], XMul(d[2], t)), XAdd(o[3], XMul(d[3], t)) >>

\* dx == 0 ? Infinity : 1.0 / dx
InvDir(dx) == IF dx = 0 THEN Infinity ELSE Recip(dx)

\* t1 < t2 ? t1 : t2 and t1 > t2 ? t1 : t2
SlabMin(t1, t2) == IF XLt(t1, t2) THEN t1 ELSE t2
SlabMax(t1, t2) == IF XGt(t1, t2) THEN t1 ELSE t2

\* this.intersectAABB(aabb)
Ray_intersectAABB(H, this, aabb) ==
  LET o == H.vecs[Origin(H, this)]
      d == H.vecs[Direction(H, this)]
      lo == BoxMin(H, aabb)
      hi == BoxMax(H, aabb)
      invDx == InvDir(d[1])
      invDy == InvDir(d[2])
      invDz == InvDir(d[3])
      t1 == XMul(XSub(lo[1], o[1]), invDx)
      t2 == XMul(XSub(hi[1], o[1]), invDx)
      t3 == XMul(XSub(lo[2], o[2]), invDy)
      t4 == XMul(XSub(hi[2], o[2]), invDy)
      t5 == XMul(XSub(lo[3], o[3]), invDz)
      t6 == XMul(XSub(hi[3], o[3]), invDz)
      tmin1 == SlabMin(t1, t2)
      tmax1 == SlabMax(t1, t2)
      tmin2 == SlabMin(t3, t4)
      tmax2 == SlabMax(t3, t4)
      tmin3 == SlabMin(t5, t6)
      tmax3 == SlabMax(t5, t6)
      tminA == IF XGt(tmin2, tmin1) THEN tmin2 ELSE tmin1
      tmin == IF XGt(tmin3, tminA) THEN tmin3 ELSE tminA
      tmaxA == IF XLt(tmax2, tmax1) THEN tmax2 ELSE tmax1
      tmax == IF XLt(tmax3, tmaxA) THEN tmax3 ELSE tmaxA
  IN  IF XLt(tmax, 0) \/ XGt(tmin, tmax) THEN -1
      ELSE IF XGe(tmin, 0) THEN tmin ELSE tmax

\* this.intersectsAABB(aabb)
Ray_intersectsAABB(H, this, aabb) == XGe(Ray_intersectAABB(H, this, aabb), 0)

IsSquare(n) == n >= 0 /\ SqrtSearch(n, 0, n) * SqrtSearch(n, 0, n) = n

Dot3(a, b) == a[1] * b[1] + a[2] * b[2] + a[3] * b[3]

\* The coefficients a, b, c and the discriminant of intersectSphere.
SphereTerms(H, this, center, radius) ==
  LET org == H.vecs[Origin(H, this)]
      dir == H.vecs[Direction(H, this)]
      o == << org[1] - center[1], org[2] - center[2], org[3] - center[3] >>
      a == Dot3(dir, dir)
      b == 2 * Dot3(o, dir)
      c == Dot3(o, o) - radius * radius
  IN  [a |-> a, b |-> b, c |-> c, discriminant |-> b * b - 4 * a * c]

\* this.intersectSphere(centerX, centerY, centerZ, radius)
Ray_intersectSphere(H, this, center, radius) ==
  LET q == SphereTerms(H, this, center, radius)
      sqrtD == SqrtSearch(q.discriminant, 0, q.discriminant)
      t1 == XDiv((-q.b) - sqrtD, 2 * q.a)
      t2 == XDiv((-q.b) + sqrtD, 2 * q.a)
  IN  IF q.discriminant < 0 THEN -1
      ELSE IF XGe(t1, 0) THEN t1
      ELSE IF XGe(t2, 0) THEN t2
      ELSE -1

\* The spheres on which the root and the two quotients are exact.
ExactSphere(H, this, center, radius) ==
  LET q == SphereTerms(H, this, center, radius)
      sqrtD == SqrtSearch(q.discriminant, 0, q.discriminant)
  IN  q.discriminant >= 0
        => /\ IsSquare(q.discriminant)
           /\ ExactDiv((-q.b) - sqrtD, 2 * q.a)
           /\ ExactDiv((-q.b) + sqrtD, 2 * q.a)

\* denom and the numerator of t in intersectPlane
PlaneTerms(H, this, n, d) ==
  [denom |-> Dot3(n, H.vecs[Direction(H, this)]),
   num |-> -(Dot3(n, H.vecs[Origin(H, this)]) + d)]

\* this.intersectPlane(nx, ny, nz, d)
Ray_intersectPlane(H, this, n, d) ==
  LET q == PlaneTerms(H, this, n, d)
      t == XDiv(q.num, q.denom)
  IN  IF NearZero(q.denom) THEN -1
      ELSE IF XGe(t, 0) THEN t ELSE -1

Cross3(a, b) ==
  << a[2] * b[3] - a[3] * b[2], a[3] * b[1] - a[1] * b[3], a[1] * b[2] - a[2] * b[1] >>

\* The determinant and the numerators of u, v and t in intersectTriangle.
TriangleTerms(H, this, v0, v1, v2) ==
  LET A == H.vecs[v0]
      B == H.vecs[v1]
      C == H.vecs[v2]
      org == H.vecs[Origin(H, this)]
      dir == H.vecs[Direction(H, this)]
      edge1 == << B[1] - A[1], B[2] - A[2], B[3] - A[3] >>
      edge2 == << C[1] - A[1], C[2] - A[2], C[3] - A[3] >>
      P == Cross3(dir, edge2)
      T == << org[1] - A[1], org[2] - A[2], org[3] - A[3] >>
      Q == Cross3(T, edge1)
  IN  [det |-> Dot3(edge1, P), u |-> Dot3(T, P), v |-> Dot3(dir, Q), t |-> Dot3(edge2, Q)]

\* x * invDet < 0, and x * invDet > 1, for invDet = 1.0 / det
NegTimesInvDet(x, det) == x * Sign(det) < 0
OverOneTimesInvDet(x, det) == x * Sign(det) > det * Sign(det)

\* this.intersectTriangle(v0, v1, v2)
Ray_intersectTriangle(H, this, v0, v1, v2) ==
  LET q == TriangleTerms(H, this, v0, v1, v2)
      t == XDiv(q.t, q.det)
  IN  IF NearZero(q.det) THEN -1
      ELSE IF NegTimesInvDet(q.u, q.det) \/ OverOneTimesInvDet(q.u, q.det) THEN -1
      ELSE IF NegTimesInvDet(q.v, q.det) \/ OverOneTimesInvDet(q.u + q.v, q.det) THEN -1
      ELSE IF XGe(t, 0) THEN t ELSE -1

\* The triangles on which 1.0 / det is exact and t is an integer.
ExactTriangle(H, this, v0, v1, v2) ==
  LET q == TriangleTerms(H, this, v0, v1, v2)
  IN  /\ q.det \in { -4, -2, -1, 0, 1, 2, 4 }
      /\ ExactDiv(q.t, q.det)

(***************************************************************************)
(* The Ray machine: the caller holds five vectors, one box and the ray of  *)
(* new Ray(), builds and redirects rays, and asks for their intersections  *)
(* with the box, with spheres, planes and the triangles of its vectors.    *)
(***************************************************************************)
MaxRays == 2

\* The calls the machine makes after the caller has built its operands.
MaxRaySteps == 2

\* The caller's vectors: a triangle, a point behind it and a direction.
CallerVecs == << <<-1, -1, 0>>, <<1, -1, 0>>, <<0, 1, 0>>, <<0, 0, -5>>, <<0, 0, 2>> >>

CallerVecIds == 1 .. Len(CallerVecs)

\* A cube, a rectangle in the plane x = 0, and an inverted box.
InRayBox ==
  { << <<-1, -1, -1>>, <<1, 1, 1>> >>,
    << <<0, -1, -1>>, <<0, 1, 1>> >>,
    << <<1, 1, 1>>, <<-1, -1, -1>> >> }

InRayOrigin == { <<-5, 0, 0>>, <<-5, 5, 0>>, <<0, 0, 0>>, <<1, 0, -5>>, <<0, 0, -5>> }

InRayDirection == { <<1, 0, 0>>, <<0, 0, 2>>, <<0, -4, 0>>, <<0, 0, 0>> }

InSphere == { << <<0, 0, 0>>, 1 >>, << <<0, 0, 3>>, 2 >> }

InPlane == { << <<1, 0, 0>>, 2 >>, << <<0, 0, -1>>, -1 >> }

\* The triangles, by the caller's vectors: two windings of the triangle, a
\* triangle on edge to the z axis, and one collapsed to a segment.
InTriangle == { <<1, 2, 3>>, <<2, 1, 3>>, <<1, 2, 4>>, <<1, 1, 3>> }

RayIds == 1 .. Len(heap.rays)

CanAllocRay == Len(heap.rays) < MaxRays

RECURSIVE WithVecs(_, _)
WithVecs(H, vs) ==
  IF vs = <<>> THEN H
  ELSE WithVecs(NewVec3(H, Head(vs)[1], Head(vs)[2], Head(vs)[3]), Tail(vs))

InitRay ==
  /\ \/ heap = Begin(NewRay(NewAABB(WithVecs(EmptyHeap, CallerVecs))))
     \/ \E B \in InRayBox :
          heap = Begin(NewRay(AABB_fromMinMax(WithVecs(EmptyHeap, CallerVecs), B[1], B[2])))
  /\ op = NoOp
  /\ firstRef = <<>>
  /\ steps = 0

\* A call on ray this that changes the heap to H2.
RayCall(name, H2, this) == Call(H2, [NoOp EXCEPT !.name = name, !.this = this])

\* A query of ray this with the result ret; a and b are its arguments.
RayQuery(name, this, a, b, ret) ==
  Call(Begin(heap), [NoOp EXCEPT !.name = name, !.this = this, !.a = a, !.b = b, !.ret = ret])

RayNew ==
  /\ steps < MaxRaySteps
  /\ CanAllocRay
  /\ RayCall("new Ray", NewRay(Begin(heap)), Len(heap.rays) + 1)

RayCreate ==
  /\ steps < MaxRaySteps
  /\ CanAllocRay
  /\ \E o \in InRayOrigin, d \in InRayDirection :
       /\ ExactDirection(d)
       /\ RayCall("Ray.create", Ray_create(Begin(heap), o, d), Len(heap.rays) + 1)

RayFromVecs ==
  /\ steps < MaxRaySteps
  /\ CanAllocRay
  /\ \E origin \in CallerVecIds, direction \in CallerVecIds :
       /\ ExactDirection(heap.vecs[direction])
       /\ RayCall("Ray.fromVecs", Ray_fromVecs(Begin(heap), origin, direction),
                  Len(heap.rays) + 1)

RayFromPoints ==
  /\ steps < MaxRaySteps
  /\ CanAllocRay
  /\ \E from \in CallerVecIds, to \in CallerVecIds :
       /\ ExactDirection([i \in 1 .. 3 |-> heap.vecs[to][i] - heap.vecs[from][i]])
       /\ RayCall("Ray.fromPoints", Ray_fromPoints(Begin(heap), from, to), Len(heap.rays) + 1)

RaySet ==
  /\ steps < MaxRaySteps
  /\ \E this \in RayIds, o \in InRayOrigin, d \in InRayDirection :
       /\ ExactDirection(d)
       /\ RayCall("set", Ray_set(Begin(heap), this, o, d), this)

RayCopy ==
  /\ steps < MaxRaySteps
  /\ \E this \in RayIds, src \in RayIds :
       RayCall("copy", Ray_copy(Begin(heap), this, src), this)

RayClone ==
  /\ steps < MaxRaySteps
  /\ CanAllocRay
  /\ \E this \in RayIds :
       RayCall("clone", Ray_clone(Begin(heap), this), Len(heap.rays) + 1)

RaySetDirection ==
  /\ steps < MaxRaySteps
  /\ \E this \in RayIds, d \in InRayDirection :
       /\ ExactDirection(d)
       /\ RayCall("setDirection", Ray_setDirection(Begin(heap), this, d), this)

RaySetDirectionVec ==
  /\ steps < MaxRaySteps
  /\ \E this \in RayIds, v \in CallerVecIds :
       /\ ExactDirection(heap.vecs[v])
       /\ RayCall("setDirectionVec", Ray_setDirectionVec(Begin(heap), this, v), this)

RayLookAt ==
  /\ steps < MaxRaySteps
  /\ \E this \in RayIds, p \in InRayOrigin :
       /\ ExactDirection([i \in 1 .. 3 |-> p[i] - heap.vecs[Origin(heap, this)][i]])
       /\ RayCall("lookAt", Ray_lookAt(Begin(heap), this, p), this)

RayLookAtVec ==
  /\ steps < MaxRaySteps
  /\ \E this \in RayIds, target \in CallerVecIds :
       /\ ExactDirection([i \in 1 .. 3 |-> heap.vecs[target][i] - heap.vecs[Origin(heap, this)][i]])
       /\ RayCall("lookAtVec", Ray_lookAtVec(Begin(heap), this, target), this)

\* 1.0 / dx is exact for every component of the direction
ExactInvDir(H, this) ==
  \A i \in 1 .. 3 : H.vecs[Direction(H, this)][i] \in { -1, 0, 1 }

RayIntersectAABB ==
  /\ steps < MaxRaySteps
  /\ \E this \in RayIds, aabb \in 1 .. Len(heap.boxes) :
       /\ ExactInvDir(heap, this)
       /\ RayQuery("intersectAABB", this, aabb, Null, Ray_intersectAABB(heap, this, aabb))

RayIntersectsAABB ==
  /\ steps < MaxRaySteps
  /\ \E this \in RayIds, aabb \in 1 .. Len(heap.boxes) :
       /\ ExactInvDir(heap, this)
       /\ RayQuery("intersectsAABB", this, aabb, Null, Ray_intersectsAABB(heap, this, aabb))

RayIntersectSphere ==
  /\ steps < MaxRaySteps
  /\ \E this \in RayIds, S \in InSphere :
       /\ ExactSphere(heap, this, S[1], S[2])
       /\ RayQuery("intersectSphere", this, S[1], S[2], Ray_intersectSphere(heap, this, S[1], S[2]))

RayIntersectPlane ==
  /\ steps < MaxRaySteps
  /\ \E this \in RayIds, P \in InPlane :
       /\ ExactDiv(PlaneTerms(heap, this, P[1], P[2]).num, PlaneTerms(heap, this, P[1], P[2]).denom)
       /\ RayQuery("intersectPlane", this, P[1], P[2], Ray_intersectPlane(heap, this, P[1], P[2]))

RayIntersectTriangle ==
  /\ steps < MaxRaySteps
  /\ \E this \in RayIds, T \in InTriangle :
       /\ ExactTriangle(heap, this, T[1], T[2], T[3])
       /\ RayQuery("intersectTriangle", this, T, Null,
                   Ray_intersectTriangle(heap, this, T[1], T[2], T[3]))

NextRay ==
  \/ RayNew \/ RayCreate \/ RayFromVecs \/ RayFromPoints
  \/ RaySet \/ RayCopy \/ RayClone
  \/ RaySetDirection \/ RaySetDirectionVec \/ RayLookAt \/ RayLookAtVec
  \/ RayIntersectAABB \/ RayIntersectsAABB
  \/ RayIntersectSphere \/ RayIntersectPlane \/ RayIntersectTriangle

SpecRay == InitRay /\ [][NextRay]_vars

\* C18: after any sequence of Ray constructors and setters, with arbitrary
\* arguments, the direction stored in every ray has length 1.
C18_DirectionUnit ==
  \A r \in RayIds : SumSq(heap.vecs[Direction(heap, r)]) = 1

IntersectionNames == { "intersectAABB", "intersectSphere", "intersectPlane", "intersectTriangle" }

\* C19: intersectAABB, intersectSphere, intersectPlane and intersectTriangle
\* return either exactly -1 or a value t >= 0, and intersectsAABB(box) is
\* true exactly when intersectAABB(box) >= 0.
C19_MinusOneOrHit ==
  /\ op.name \in IntersectionNames => (op.ret = -1 \/ XGe(op.ret, 0))
  /\ op.name = "intersectsAABB"
       => (op.ret <=> XGe(Ray_intersectAABB(heap, op.this, op.a), 0))

\* The largest ray parameter at which a box of the machine can be entered.
MaxRayT == 12

\* The integer parameters t >= 0 at which getPoint(t) lies in the closed box.
HitTimes(H, r, box) ==
  { t \in 0 .. MaxRayT : AABB_containsPoint(H, box, Ray_getPoint(H, r, t)) }

\* C20: for a ray with a unit direction and any box, intersectAABB returns
\* the smallest t >= 0 with getPoint(t) in the closed box, and -1 exactly
\* when no point of the half-line lies in the box.
C20_FirstPointInBox ==
  (op.name = "intersectAABB" /\ SumSq(heap.vecs[Direction(heap, op.this)]) = 1)
    => LET hits == HitTimes(heap, op.this, op.a)
       IN  IF hits = {} THEN op.ret = -1
           ELSE op.ret \in hits /\ \A t \in hits : op.ret <= t

(***************************************************************************)
(* Transform.compose and Transform.rotateAxisAngle on the Transform        *)
(* machine.                                                                *)
(***************************************************************************)
\* The position parent + scale * rotate(rotation, child) componentwise.
PlacedBy(p, q, s, c) ==
  LET r == RotateVec(q, c)
  IN  << p[1] + r[1] * s[1], p[2] + r[2] * s[2], p[3] + r[3] * s[3] >>

\* C21: parent.compose(child), child another Transform, leaves in the
\* parent's position its previous position plus the child's position rotated
\* by the parent's rotation as it was before the call and scaled by the
\* parent's scale as it was before the call; the child's rotation and scale
\* do not enter.
C21_ComposePosition ==
  [][ (op'.name = "compose" /\ op'.this # op'.a)
        => heap'.vecs[Pos(heap', op'.this)]
             = PlacedBy(heap.vecs[Pos(heap, op'.this)], heap.quats[Rot(heap, op'.this)],
                        heap.vecs[Scl(heap, op'.this)], heap.vecs[Pos(heap, op'.a)]) ]_vars

\* The quaternion setFromAxisAngle(axis, k * PI) writes.
AxisAngleQuat(axis, k) ==
  << axis[1] * SinQuarter(k), axis[2] * SinQuarter(k), axis[3] * SinQuarter(k), CosQuarter(k) >>

\* C28: rotateAxisAngle(axis, radians), axis the caller's vector, leaves as the rotation the product of
\* the previous rotation and the quaternion of (axis, radians), in one order
\* or the other; from the identity rotation that is the quaternion of
\* (axis, radians) itself.
C28_RotateAxisAngleComposes ==
  [][ op'.name = "rotateAxisAngle"
        => \E k \in InTurns :
             LET prev == heap.quats[Rot(heap, op'.this)]
                 turn == AxisAngleQuat(heap.vecs[1], k)
             IN  heap'.quats[Rot(heap', op'.this)]
                   \in { HamiltonProduct(prev, turn), HamiltonProduct(turn, prev) } ]_vars

(***************************************************************************)
(* Points through a Transform (Transform.ts, Mat4.ts): transformPoint,     *)
(* transformDirection and Mat4.transformVec3, and the machine that applies *)
(* them.  The caller owns the Vec3 with reference 1, the point v; one      *)
(* Transform has been constructed and given a position, a rotation and a   *)
(* scale through its setters.                                              *)
(***************************************************************************)
\* The Vec3 an operation writes when out is null: new Vec3().
WithOutVec3(H, out) == IF out = Null THEN NewVec3(H, 0, 0, 0) ELSE H

\* A transformPoint that leaves the scale out.
Transform_transformPoint_Unscaled(H, this, v, out) ==
  LET o == OutVec(H, out)
      H0 == WithOutVec3(H, out)
      r == RotateVec(H0.quats[Rot(H0, this)], H0.vecs[v])
      p == H0.vecs[Pos(H0, this)]
  IN  [H0 EXCEPT !.vecs[o] = << r[1] + p[1], r[2] + p[2], r[3] + p[3] >>]

\* this.transformPoint(v, out): scale, then the sandwich product written
\* inline, then the position, one component of out after the other.
Transform_transformPoint(H, this, v, out) ==
  LET o == OutVec(H, out)
      H0 == WithOutVec3(H, out)
      sx == H0.vecs[v][1] * H0.vecs[Scl(H0, this)][1]
      sy == H0.vecs[v][2] * H0.vecs[Scl(H0, this)][2]
      sz == H0.vecs[v][3] * H0.vecs[Scl(H0, this)][3]
      r == Rot(H0, this)
      qx == H0.quats[r][1] qy == H0.quats[r][2] qz == H0.quats[r][3] qw == H0.quats[r][4]
      ix == qw * sx + qy * sz - qz * sy
      iy == qw * sy + qz * sx - qx * sz
      iz == qw * sz + qx * sy - qy * sx
      iw == (-qx) * sx - qy * sy - qz * sz
      H1 == [H0 EXCEPT !.vecs[o][1] =
               ix * qw + iw * (-qx) + iy * (-qz) - iz * (-qy) + H0.vecs[Pos(H0, this)][1]]
      H2 == [H1 EXCEPT !.vecs[o][2] =
               iy * qw + iw * (-qy) + iz * (-qx) - ix * (-qz) + H1.vecs[Pos(H1, this)][2]]
  IN  [H2 EXCEPT !.vecs[o][3] =
         iz * qw + iw * (-qz) + ix * (-qy) - iy * (-qx) + H2.vecs[Pos(H2, this)][3]]

\* this.transformDirection(v, out)
Transform_transformDirection(H, this, v, out) ==
  Quat_transformVec3(WithOutVec3(H, out), Rot(H, this), v, OutVec(H, out))

\* The denominator of w in m.transformVec3(v)
Mat4_wDenominator(A, V) == A[4] * V[1] + A[8] * V[2] + A[12] * V[3] + A[16]

\* m.transformVec3(v, out): v is read into locals first
Mat4_transformVec3(H, m, v, out) ==
  LET o == OutVec(H, out)
      H0 == WithOutVec3(H, out)
      A == H0.mats[m]
      x == H0.vecs[v][1] y == H0.vecs[v][2] z == H0.vecs[v][3]
      w == Recip(Mat4_wDenominator(A, H0.vecs[v]))
      H1 == [H0 EXCEPT !.vecs[o][1] = (Fld(H0, m, 0) * x + Fld(H0, m, 4) * y + Fld(H0, m, 8) * z + Fld(H0, m, 12)) * w]
      H2 == [H1 EXCEPT !.vecs[o][2] = (Fld(H1, m, 1) * x + Fld(H1, m, 5) * y + Fld(H1, m, 9) * z + Fld(H1, m, 13)) * w]
  IN  [H2 EXCEPT !.vecs[o][3] = (Fld(H2, m, 2) * x + Fld(H2, m, 6) * y + Fld(H2, m, 10) * z + Fld(H2, m, 14)) * w]

MaxPointSteps == 2
MaxPointTransforms == 2

InPoint == { <<1, 2, 3>>, <<0, -1, 4>> }
InPointPosition == { <<0, 0, 0>>, <<5, -2, 1>> }
InPointRotation == { <<0, 0, 0, 1>>, <<1, 0, 0, 0>>, <<0, 0, -1, 0>>, <<1, 0, 0, 1>> }
InPointScale == { <<1, 1, 1>>, <<-1, -1, -1>>, <<2, 1, 3>>, <<-1, 1, -1>> }

CanConstructPoint == Len(heap.trs) < MaxPointTransforms

OutPointArgs == IF CanConstructPoint THEN TrIds \cup { Null } ELSE TrIds

\* The out arguments of transformPoint / transformDirection: none, or the
\* caller's point itself.
OutPointVecs == { Null, 1 }

InitPoint ==
  /\ \E v \in InPoint, p \in InPointPosition, q \in InPointRotation, s \in InPointScale :
       LET H1 == NewTransform(NewVec3(EmptyHeap, v[1], v[2], v[3]))
           H2 == Transform_setPosition(H1, 1, p[1], p[2], p[3])
           H3 == Transform_setRotation(H2, 1, q[1], q[2], q[3], q[4])
       IN  heap = Begin(Transform_setScale(H3, 1, s[1], s[2], s[3]))
  /\ op = [NoOp EXCEPT !.this = 1]
  /\ firstRef = <<Null>>
  /\ steps = 0

PointSetPosition ==
  /\ steps < MaxPointSteps
  /\ \E this \in TrIds, p \in InPointPosition :
       Mutate("setPosition", Transform_setPosition(Begin(heap), this, p[1], p[2], p[3]), this)

PointSetRotation ==
  /\ steps < MaxPointSteps
  /\ \E this \in TrIds, q \in InPointRotation :
       Mutate("setRotation", Transform_setRotation(Begin(heap), this, q[1], q[2], q[3], q[4]), this)

PointSetScale ==
  /\ steps < MaxPointSteps
  /\ \E this \in TrIds, s \in InPointScale :
       Mutate("setScale", Transform_setScale(Begin(heap), this, s[1], s[2], s[3]), this)

PointGetMatrix ==
  /\ steps < MaxPointSteps
  /\ GetMatrix

PointTransformPoint ==
  /\ steps < MaxPointSteps
  /\ \E this \in TrIds, out \in OutPointVecs :
       Call(Transform_transformPoint(Begin(heap), this, 1, out),
            [NoOp EXCEPT !.name = "transformPoint", !.this = this, !.a = 1, !.out = out,
                         !.ret = OutVec(heap, out)])

PointTransformDirection ==
  /\ steps < MaxPointSteps
  /\ \E this \in TrIds, out \in OutPointVecs :
       Call(Transform_transformDirection(Begin(heap), this, 1, out),
            [NoOp EXCEPT !.name = "transformDirection", !.this = this, !.a = 1, !.out = out,
                         !.ret = OutVec(heap, out)])

\* 1.0 / w is exact when the denominator is 1 or -1.
PointMatTransformVec3 ==
  /\ steps < MaxPointSteps
  /\ \E m \in 1 .. Len(heap.mats), out \in OutPointVecs :
       /\ ExactRecip(Mat4_wDenominator(heap.mats[m], heap.vecs[1]))
       /\ Call(Mat4_transformVec3(Begin(heap), m, 1, out),
               [NoOp EXCEPT !.name = "Mat4.transformVec3", !.this = m, !.a = 1, !.out = out,
                            !.ret = OutVec(heap, out)])

PointInvert ==
  /\ steps < MaxPointSteps
  /\ Invert

PointInvertStatic ==
  /\ steps < MaxPointSteps
  /\ \E t \in TrIds, out \in OutPointArgs :
       /\ CanInvert(heap, t)
       /\ Static("Transform.invert", Transform_invertStatic(Begin(heap), t, out), t, Null, 0, out)

NextPoint ==
  \/ PointSetPosition \/ PointSetRotation \/ PointSetScale
  \/ PointGetMatrix \/ PointTransformPoint \/ PointTransformDirection
  \/ PointMatTransformVec3 \/ PointInvert \/ PointInvertStatic

SpecPoint == InitPoint /\ [][NextPoint]_vars

\* position + rotation.transformVec3(scale * v), on values.
PointValue(T, v) ==
  LET r == RotateVec(T[2], << T[3][1] * v[1], T[3][2] * v[2], T[3][3] * v[3] >>)
  IN  << T[1][1] + r[1], T[1][2] + r[2], T[1][3] + r[3] >>

\* t.getMatrix().transformVec3(v), the result a new Vec3.
ViaMatrix(H, t, v) ==
  LET H1 == Transform_getMatrix(H, t)
      H2 == Mat4_transformVec3(H1, H1.trs[t].matrix, v, Null)
  IN  H2.vecs[LastVec(H2)]

UnitRotation(H, t) == Quat_lengthSq(H.quats[Rot(H, t)]) = 1

\* C25: for every Transform t whose rotation is a unit quaternion and the
\* caller's point v, t.transformPoint(v) is position + rotation.transformVec3(
\* scale * v) and is t.getMatrix().transformVec3(v), and t.transformDirection(v)
\* is rotation.transformVec3(v) whatever the position and scale; a call with
\* an out argument leaves that value in out.
C25_TransformPoint ==
  /\ [](\A t \in TrIds :
          UnitRotation(heap, t)
            => LET P == Transform_transformPoint(heap, t, 1, Null)
                   D == Transform_transformDirection(heap, t, 1, Null)
               IN  /\ P.vecs[LastVec(P)] = PointValue(TVal(heap, t), heap.vecs[1])
                   /\ P.vecs[LastVec(P)] = ViaMatrix(heap, t, 1)
                   /\ D.vecs[LastVec(D)] = RotateVec(heap.quats[Rot(heap, t)], heap.vecs[1]))
  /\ [][ /\ (op'.name = "transformPoint" /\ UnitRotation(heap, op'.this))
             => heap'.vecs[op'.ret] = PointValue(TVal(heap, op'.this), heap.vecs[1])
         /\ (op'.name = "transformDirection" /\ UnitRotation(heap, op'.this))
             => heap'.vecs[op'.ret] = RotateVec(heap.quats[Rot(heap, op'.this)], heap.vecs[1]) ]_vars

\* transformPoint(v) with v = (1,2,3) was called on a Transform at (5,-2,1),
\* turned half around x and scaled by (2,1,3), and returned (7,-4,-8) in a
\* new Vec3.
C25_Witness ==
  /\ op.name = "transformPoint"
  /\ op.out = Null
  /\ TVal(heap, op.this) = << <<5, -2, 1>>, <<1, 0, 0, 0>>, <<2, 1, 3>> >>
  /\ heap.vecs[1] = <<1, 2, 3>>
  /\ heap.vecs[op.ret] = <<7, -4, -8>>

UniformScale(H, t) ==
  LET s == H.vecs[Scl(H, t)]
  IN  s[1] = s[2] /\ s[2] = s[3] /\ s[1] # 0

\* C27: for every Transform t with a unit rotation and a uniform non-zero
\* scale (here 1 or -1, for which 1.0 / scale is exact), Transform.invert(t)
\* maps t.transformPoint(v) back to v, for the caller's point and every other
\* point, and inverting the inverse gives t's position, rotation and scale
\* again; also when out is t itself.
C27_InvertIsInverseMapping ==
  /\ [](\A t \in TrIds :
          (UnitRotation(heap, t) /\ UniformScale(heap, t) /\ CanInvert(heap, t))
            => LET I == Transform_invertStatic(heap, t, Null)
                   P == Transform_transformPoint(I, t, 1, Null)
                   Q == Transform_transformPoint(P, LastTr(I), LastVec(P), Null)
                   II == Transform_invertStatic(I, LastTr(I), Null)
               IN  /\ Q.vecs[LastVec(Q)] = heap.vecs[1]
                   /\ TVal(II, LastTr(II)) = TVal(heap, t))
  /\ [][ (op'.name = "Transform.invert" /\ UnitRotation(heap, op'.a) /\ UniformScale(heap, op'.a))
           => \A v \in InPoint :
                PointValue(TVal(heap', op'.this), PointValue(TVal(heap, op'.a), v)) = v ]_vars

\* Transform.invert was called, with a new out, on a Transform at (5,-2,1),
\* turned half around x and scaled by -1, and gave the Transform at (5,2,-1)
\* with the conjugate rotation and scale -1.
C27_Witness ==
  /\ op.name = "Transform.invert"
  /\ op.out = Null
  /\ TVal(heap, op.a) = << <<5, -2, 1>>, <<1, 0, 0, 0>>, <<-1, -1, -1>> >>
  /\ TVal(heap, op.this) = << <<5, 2, -1>>, <<-1, 0, 0, 0>>, <<-1, -1, -1>> >>

(***************************************************************************)
(* The public fields of a Transform (Transform.ts).  position, rotation    *)
(* and scale are public objects: besides the setters of Transform, a       *)
(* caller can assign a component (t.position.x = c) or call the object's   *)
(* own set, neither of which goes through Transform.                       *)
(***************************************************************************)
\* v.x = c, v.y = c or v.z = c (i = 1, 2, 3)
Vec3_assign(H, v, i, c) == [H EXCEPT !.vecs[v][i] = c]

MaxFieldSteps == 3

InField == { 5, -2 }
InFieldVec == { <<0, 1, 0>>, <<3, 0, -1>> }
InFieldQuat == { <<1, 0, 0, 0>>, <<0, 0, 0, 1>> }

DirectWrites == { "position.x =", "position.set", "rotation.set", "scale.x =" }

InitField ==
  /\ heap = Begin(NewTransform(EmptyHeap))
  /\ op = [NoOp EXCEPT !.this = 1]
  /\ firstRef = <<Null>>
  /\ steps = 0

\* A write that bypasses Transform, recorded with the Transform it concerns.
Direct(name, H2, this) ==
  /\ steps < MaxFieldSteps
  /\ Call(H2, [NoOp EXCEPT !.name = name, !.this = this])

FieldAssignPosition ==
  \E this \in TrIds, c \in InField :
    Direct("position.x =", Vec3_assign(Begin(heap), Pos(heap, this), 1, c), this)

FieldSetOnPosition ==
  \E this \in TrIds, v \in InFieldVec :
    Direct("position.set", Vec3_set(Begin(heap), Pos(heap, this), v[1], v[2], v[3]), this)

FieldSetOnRotation ==
  \E this \in TrIds, q \in InFieldQuat :
    Direct("rotation.set", Quat_set(Begin(heap), Rot(heap, this), q[1], q[2], q[3], q[4]), this)

FieldAssignScale ==
  \E this \in TrIds, c \in InField :
    Direct("scale.x =", Vec3_assign(Begin(heap), Scl(heap, this), 1, c), this)

FieldSetPosition ==
  /\ steps < MaxFieldSteps
  /\ \E this \in TrIds, v \in InFieldVec :
       Mutate("setPosition", Transform_setPosition(Begin(heap), this, v[1], v[2], v[3]), this)

FieldMarkDirty ==
  /\ steps < MaxFieldSteps
  /\ MarkDirty

FieldGetMatrix ==
  /\ steps < MaxFieldSteps
  /\ GetMatrix

NextField ==
  \/ FieldAssignPosition \/ FieldSetOnPosition \/ FieldSetOnRotation \/ FieldAssignScale
  \/ FieldSetPosition \/ FieldMarkDirty \/ FieldGetMatrix

SpecField == InitField /\ [][NextField]_vars

\* C29: a getMatrix() that follows a direct write to the position, rotation
\* or scale object of the Transform returns the matrix computeMatrix gives
\* for the values as written.
C29_GetMatrixAfterDirectWrite ==
  [][ (op.name \in DirectWrites /\ op'.name = "getMatrix" /\ op'.this = op.this)
        => heap'.mats[op'.ret] = Fresh(heap, op.this) ]_vars

(***************************************************************************)
(* Scalar helpers (polyfills.ts).  A call is recorded in op: its name, its *)
(* arguments a, b and t and its result ret.  An i32 is an integer of       *)
(* MinI32 .. MaxI32.  The library is compiled by two toolchains: in one    *)
(* the i32 addition wraps, in the other it is an addition of numbers, and  *)
(* nextPowerOfTwo's result is recorded as ret + t * 2^32 with ret an i32.  *)
(***************************************************************************)
MaxI32 == 2147483647
MinI32 == (-MaxI32) - 1

\* a % b in f64: the remainder has the sign of a; x % 0 and Infinity % x
\* are NaN
Fmod(a, b) ==
  IF a = NaN \/ b = NaN \/ IsInf(a) \/ b = 0 THEN NaN
  ELSE IF IsInf(b) THEN a
  ELSE Sign(a) * ((a * Sign(a)) % (b * Sign(b)))

\* mod(a, b)
mod(a, b) == Fmod(XAdd(Fmod(a, b), b), b)

\* inverseLerp(a, b, value)
inverseLerp(a, b, value) ==
  LET denom == XSub(b, a)
  IN  IF denom = 0 THEN 0 ELSE XDiv(XSub(value, a), denom)

\* a | b and a & b on non-negative i32
RECURSIVE BitOr(_, _)
BitOr(a, b) ==
  IF a = 0 THEN b
  ELSE IF b = 0 THEN a
  ELSE (IF a % 2 = 1 \/ b % 2 = 1 THEN 1 ELSE 0) + 2 * BitOr(a \div 2, b \div 2)

RECURSIVE BitAnd(_, _)
BitAnd(a, b) ==
  IF a = 0 \/ b = 0 THEN 0
  ELSE (IF a % 2 = 1 /\ b % 2 = 1 THEN 1 ELSE 0) + 2 * BitAnd(a \div 2, b \div 2)

\* v |= v >> n, v non-negative
Smear(v, n) == BitOr(v, v \div (2 ^ n))

\* nextPowerOfTwo(value) for value > 0, as << ret, t >>: the final v + 1
\* overflows i32 when v is MaxI32, and then wraps or not with the toolchain.
nextPowerOfTwo(value, wraps) ==
  LET v == Smear(Smear(Smear(Smear(Smear(value - 1, 1), 2), 4), 8), 16)
  IN  IF v = MaxI32 THEN << MinI32, IF wraps THEN 0 ELSE 1 >> ELSE << v + 1, 0 >>

\* isPowerOfTwo(value), value an i32
isPowerOfTwo(value) == value > 0 /\ BitAnd(value, value - 1) = 0

MaxScalarSteps == 1

InLerp == { -4, 0, 1, 2, 4 }
InModDividend == { -7, -1, 0, 1, 5, 7 }
InModDivisor == { -3, 0, 2, 3 }
InI32 ==
  (1 .. 9) \cup { 1023, 1024, 1025, 65535, 65536, 65537, 1073741823, 1073741824,
                  1073741825, MaxI32 - 1, MaxI32 }

InitScalar ==
  /\ heap = EmptyHeap
  /\ op = NoOp
  /\ firstRef = <<>>
  /\ steps = 0

\* (value - a) / denom is exact for these arguments.
ScalarInverseLerp ==
  /\ steps < MaxScalarSteps
  /\ \E a \in InLerp, b \in InLerp, value \in InLerp :
       /\ ExactDiv(value - a, b - a)
       /\ Call(heap, [NoOp EXCEPT !.name = "inverseLerp", !.a = a, !.b = b, !.t = value,
                                  !.ret = inverseLerp(a, b, value)])

ScalarMod ==
  /\ steps < MaxScalarSteps
  /\ \E a \in InModDividend, b \in InModDivisor :
       Call(heap, [NoOp EXCEPT !.name = "mod", !.a = a, !.b = b, !.ret = mod(a, b)])

ScalarNextPowerOfTwo ==
  /\ steps < MaxScalarSteps
  /\ \E value \in InI32, wraps \in BOOLEAN :
       LET r == nextPowerOfTwo(value, wraps)
       IN  Call(heap, [NoOp EXCEPT !.name = "nextPowerOfTwo", !.a = value,
                                  !.ret = r[1], !.t = r[2]])

ScalarIsPowerOfTwo ==
  /\ steps < MaxScalarSteps
  /\ \E value \in InI32 \cup { 0, -4, MinI32 } :
       Call(heap, [NoOp EXCEPT !.name = "isPowerOfTwo", !.a = value,
                              !.ret = IF isPowerOfTwo(value) THEN 1 ELSE 0])

NextScalar ==
  \/ ScalarInverseLerp \/ ScalarMod \/ ScalarNextPowerOfTwo \/ ScalarIsPowerOfTwo

SpecScalar == InitScalar /\ [][NextScalar]_vars

\* C22: inverseLerp(a, b, v) returns 0 when a == b, and mod(a, 0) returns a
\* number that is neither NaN nor an infinity.
C22_ZeroDivisorGuarded ==
  /\ (op.name = "inverseLerp" /\ op.a = op.b) => op.ret = 0
  /\ (op.name = "mod" /\ op.b = 0) => (op.ret # NaN /\ ~IsInf(op.ret))

\* C30: for every positive i32 v, nextPowerOfTwo(v) is an i32 power of two,
\* is >= v, is v itself when v is a power of two, and its half is < v; and
\* the result is the same whether the final addition wraps or not.
C30_NextPowerOfTwo ==
  (op.name = "nextPowerOfTwo" /\ op.a > 0)
    => /\ IF op.t = 1 THEN op.ret = MinI32 ELSE isPowerOfTwo(op.ret)
       /\ op.t = 1 \/ op.ret >= op.a
       /\ isPowerOfTwo(op.a) => (op.t = 0 /\ op.ret = op.a)
       /\ op.t = 0 => op.ret \div 2 < op.a
       /\ nextPowerOfTwo(op.a, TRUE) = nextPowerOfTwo(op.a, FALSE)

(***************************************************************************)
(* Float32Array interop (Mat4.ts).  A Float32Array is the sequence of its  *)
(* elements, element i of the source at index i + 1; storing an f64 in it  *)
(* rounds to single precision, reading widens exactly.                     *)
(***************************************************************************)
\* The spacing of the single-precision numbers around a >= 2^24: the
\* smallest power of two u with a / u < 2^24.
RECURSIVE F32Ulp(_, _)
F32Ulp(a, u) == IF a \div u < 16777216 THEN u ELSE F32Ulp(a, 2 * u)

\* <f32>x for an integer x: exact below 2^24, otherwise rounded to the
\* nearest multiple of the spacing, ties to the even multiple.
Fround(x) ==
  LET a == x * Sign(x)
      u == F32Ulp(a, 1)
      q == a \div u
      r == a % u
      up == 2 * r > u \/ (2 * r = u /\ q % 2 = 1)
  IN  Sign(x) * (IF up THEN q + 1 ELSE q) * u

\* new Float32Array(n), filled by the caller with vals
NewFloat32Array(H, vals) == [Alloc(H) EXCEPT !.bufs = Append(@, vals)]

\* out[offset + n] = <f32>v
StoreF32(H, out, offset, n, v) == [H EXCEPT !.bufs[out][offset + n + 1] = Fround(v)]

RECURSIVE StoreFields(_, _, _, _, _)
\* out[offset + n] = <f32>this.mNN for the field numbers of the sequence order
StoreFields(H, this, out, offset, order) ==
  IF order = <<>> THEN H
  ELSE StoreFields(StoreF32(H, out, offset, Len(order) - 1, Fld(H, this, order[Len(order)])),
                   this, out, offset, SubSeq(order, 1, Len(order) - 1))

\* A toFloat32Array that writes the matrix row by row.
Mat4_toFloat32Array_RowMajor(H, this, out, offset) ==
  StoreFields(H, this, out, offset, <<0, 4, 8, 12, 1, 5, 9, 13, 2, 6, 10, 14, 3, 7, 11, 15>>)

\* this.toFloat32Array(out, offset)
Mat4_toFloat32Array(H, this, out, offset) ==
  StoreFields(H, this, out, offset, <<0, 1, 2, 3, 4, 5, 6, 7, 8, 9, 10, 11, 12, 13, 14, 15>>)

RECURSIVE LoadFields(_, _, _, _, _)
\* this.m00 = arr[offset + 0]; ... for the fields n .. 15
LoadFields(H, this, arr, offset, n) ==
  IF n > 15 THEN H
  ELSE LoadFields(PutFld(H, this, n, H.bufs[arr][offset + n + 1]), this, arr, offset, n + 1)

\* this.fromFloat32Array(arr, offset)
Mat4_fromFloat32Array(H, this, arr, offset) == LoadFields(H, this, arr, offset, 0)

MaxBufSteps == 3
MaxBufMats == 2
BufLen == 18

InBufMat ==
  { << 1, 2, 3, 4,   5, 6, 7, 8,   9, 10, 11, 12,   13, 14, 15, 16 >>,
    << 16777217, 0, 0, -33554434,   0, 16777219, 0, 0,   0, 0, 1, 0,   7, 0, 0, 1 >> }

BufIds == 1 .. Len(heap.bufs)

\* The offsets that leave 16 elements in the array.
Offsets(b) == 0 .. (Len(heap.bufs[b]) - 16)

\* One matrix, and a Float32Array the caller filled with -1, -2, ...
InitBuf ==
  /\ \E v \in InBufMat :
       heap = Begin(NewFloat32Array(Mat4_fromValues(EmptyHeap, v), [j \in 1 .. BufLen |-> -j]))
  /\ op = NoOp
  /\ firstRef = <<>>
  /\ steps = 0

BufFromValues ==
  /\ steps < MaxBufSteps
  /\ Len(heap.mats) < MaxBufMats
  /\ \E v \in InBufMat :
       Call(Mat4_fromValues(Begin(heap), v),
            [NoOp EXCEPT !.name = "Mat4.fromValues", !.this = Len(heap.mats) + 1])

BufNewMat ==
  /\ steps < MaxBufSteps
  /\ Len(heap.mats) < MaxBufMats
  /\ Call(NewMat4(Begin(heap)), [NoOp EXCEPT !.name = "new Mat4", !.this = Len(heap.mats) + 1])

BufToFloat32Array ==
  /\ steps < MaxBufSteps
  /\ \E this \in MatIds, out \in BufIds :
       \E offset \in Offsets(out) :
         Call(Mat4_toFloat32Array(Begin(heap), this, out, offset),
              [NoOp EXCEPT !.name = "toFloat32Array", !.this = this, !.out = out, !.t = offset,
                           !.ret = out])

BufFromFloat32Array ==
  /\ steps < MaxBufSteps
  /\ \E this \in MatIds, arr \in BufIds :
       \E offset \in Offsets(arr) :
         Call(Mat4_fromFloat32Array(Begin(heap), this, arr, offset),
              [NoOp EXCEPT !.name = "fromFloat32Array", !.this = this, !.a = arr, !.t = offset,
                           !.inplace = TRUE])

NextBuf == BufFromValues \/ BufNewMat \/ BufToFloat32Array \/ BufFromFloat32Array

SpecBuf == InitBuf /\ [][NextBuf]_vars

\* The matrix fromFloat32Array(buf, offset) leaves in a new Mat4.
ReadBack(H, buf, offset) ==
  LET H1 == NewMat4(H)
      H2 == Mat4_fromFloat32Array(H1, LastMat(H1), buf, offset)
  IN  H2.mats[LastMat(H2)]

SinglePrecision(A) == \A i \in 1 .. 16 : Fround(A[i]) = A[i]

\* C23: m.toFloat32Array(buf, offset) leaves in buf[offset + 4c + r] the
\* element of m at column c and row r (field m(4c+r)), rounded to single
\* precision, leaves every other element of buf, every other array and every
\* matrix as it was, and when the components of m are single-precision
\* numbers fromFloat32Array(buf, offset) reads back a matrix equal to m.
C23_Float32RoundTrip ==
  [][ op'.name = "toFloat32Array"
        => LET m == heap.mats[op'.this]
               b == op'.out
               off == op'.t
           IN  /\ \A c \in 0 .. 3, r \in 0 .. 3 :
                    heap'.bufs[b][off + 4 * c + r + 1] = Fround(m[4 * c + r + 1])
               /\ \A j \in 1 .. Len(heap.bufs[b]) :
                    (j - 1 < off \/ j - 1 > off + 15) => heap'.bufs[b][j] = heap.bufs[b][j]
               /\ Len(heap'.bufs[b]) = Len(heap.bufs[b])
               /\ \A o \in BufIds \ { b } : heap'.bufs[o] = heap.bufs[o]
               /\ heap'.mats = heap.mats
               /\ SinglePrecision(m) => ReadBack(heap', b, off) = m ]_vars

\* The matrix with the fields 1 .. 16 was written at offset 2 of the array
\* the caller had filled with -1 .. -18.
C23_Witness ==
  /\ op.name = "toFloat32Array"
  /\ op.t = 2
  /\ heap.mats[op.this] = << 1, 2, 3, 4, 5, 6, 7, 8, 9, 10, 11, 12, 13, 14, 15, 16 >>
  /\ heap.bufs[op.out] = << -1, -2, 1, 2, 3, 4, 5, 6, 7, 8, 9, 10, 11, 12, 13, 14, 15, 16 >>

\* A matrix with a component that is not a single-precision number was
\* written, and the array holds the rounded component.
C23_RoundedReached ==
  /\ op.name = "toFloat32Array"
  /\ heap.mats[op.this][1] = 16777217
  /\ heap.bufs[op.out][op.t + 1] = 16777216
  /\ heap.bufs[op.out][op.t + 4] = -33554432
  /\ heap.bufs[op.out][op.t + 6] = 16777220

(***************************************************************************)
(* Elementary transforms of Mat4 (Mat4.ts): translate, scale, rotateX/Y/Z  *)
(* in place and the static fromTranslation, fromScaling, fromRotationX/Y/Z.*)
(* An angle is k quarter turns (radians = k * PI / 2), whose sine and      *)
(* cosine are SinQuarter(k) and CosQuarter(k).                             *)
(***************************************************************************)
\* A translate that adds (x, y, z) to the translation column as it is.
Mat4_translate_World(H, this, x, y, z) ==
  LET H1 == PutFld(H, this, 12, Fld(H, this, 12) + x)
      H2 == PutFld(H1, this, 13, Fld(H1, this, 13) + y)
  IN  PutFld(H2, this, 14, Fld(H2, this, 14) + z)

\* this.translate(x, y, z)
Mat4_translate(H, this, x, y, z) ==
  LET H1 == PutFld(H, this, 12, Fld(H, this, 12)
              + (Fld(H, this, 0) * x + Fld(H, this, 4) * y + Fld(H, this, 8) * z))
      H2 == PutFld(H1, this, 13, Fld(H1, this, 13)
              + (Fld(H1, this, 1) * x + Fld(H1, this, 5) * y + Fld(H1, this, 9) * z))
      H3 == PutFld(H2, this, 14, Fld(H2, this, 14)
              + (Fld(H2, this, 2) * x + Fld(H2, this, 6) * y + Fld(H2, this, 10) * z))
  IN  PutFld(H3, this, 15, Fld(H3, this, 15)
        + (Fld(H3, this, 3) * x + Fld(H3, this, 7) * y + Fld(H3, this, 11) * z))

\* this.scale(x, y, z): every field of the first three columns is
\* multiplied by its column's factor
Mat4_scale(H, this, x, y, z) ==
  [H EXCEPT !.mats[this] =
     [i \in 1 .. 16 |-> IF i <= 4 THEN @[i] * x
                        ELSE IF i <= 8 THEN @[i] * y
                        ELSE IF i <= 12 THEN @[i] * z
                        ELSE @[i]]]

\* this.rotateX(radians): columns 1 and 2 are read into locals first
Mat4_rotateX(H, this, k) ==
  LET c == CosQuarter(k) s == SinQuarter(k)
      a10 == Fld(H, this, 4) a11 == Fld(H, this, 5) a12 == Fld(H, this, 6) a13 == Fld(H, this, 7)
      a20 == Fld(H, this, 8) a21 == Fld(H, this, 9) a22 == Fld(H, this, 10) a23 == Fld(H, this, 11)
  IN  [H EXCEPT !.mats[this][5] = a10 * c + a20 * s, !.mats[this][6] = a11 * c + a21 * s,
                !.mats[this][7] = a12 * c + a22 * s, !.mats[this][8] = a13 * c + a23 * s,
                !.mats[this][9] = a20 * c - a10 * s, !.mats[this][10] = a21 * c - a11 * s,
                !.mats[this][11] = a22 * c - a12 * s, !.mats[this][12] = a23 * c - a13 * s]

\* this.rotateY(radians): columns 0 and 2 are read into locals first
Mat4_rotateY(H, this, k) ==
  LET c == CosQuarter(k) s == SinQuarter(k)
      a00 == Fld(H, this, 0) a01 == Fld(H, this, 1) a02 == Fld(H, this, 2) a03 == Fld(H, this, 3)
      a20 == Fld(H, this, 8) a21 == Fld(H, this, 9) a22 == Fld(H, this, 10) a23 == Fld(H, this, 11)
  IN  [H EXCEPT !.mats[this][1] = a00 * c - a20 * s, !.mats[this][2] = a01 * c - a21 * s,
                !.mats[this][3] = a02 * c - a22 * s, !.mats[this][4] = a03 * c - a23 * s,
                !.mats[this][9] = a00 * s + a20 * c, !.mats[this][10] = a01 * s + a21 * c,
                !.mats[this][11] = a02 * s + a22 * c, !.mats[this][12] = a03 * s + a23 * c]

\* this.rotateZ(radians): columns 0 and 1 are read into locals first
Mat4_rotateZ(H, this, k) ==
  LET c == CosQuarter(k) s == SinQuarter(k)
      a00 == Fld(H, this, 0) a01 == Fld(H, this, 1) a02 == Fld(H, this, 2) a03 == Fld(H, this, 3)
      a10 == Fld(H, this, 4) a11 == Fld(H, this, 5) a12 == Fld(H, this, 6) a13 == Fld(H, this, 7)
  IN  [H EXCEPT !.mats[this][1] = a00 * c + a10 * s, !.mats[this][2] = a01 * c + a11 * s,
                !.mats[this][3] = a02 * c + a12 * s, !.mats[this][4] = a03 * c + a13 * s,
                !.mats[this][5] = a10 * c - a00 * s, !.mats[this][6] = a11 * c - a01 * s,
                !.mats[this][7] = a12 * c - a02 * s, !.mats[this][8] = a13 * c - a03 * s]

\* The sixteen assignments of a static from...(.., out).
Mat4_writeAll(H, out, vals) == [WithOutMat(H, out) EXCEPT !.mats[OutMat(H, out)] = vals]

Mat4_fromTranslation(H, x, y, z, out) ==
  Mat4_writeAll(H, out, << 1, 0, 0, 0,   0, 1, 0, 0,   0, 0, 1, 0,   x, y, z, 1 >>)

Mat4_fromScaling(H, x, y, z, out) ==
  Mat4_writeAll(H, out, << x, 0, 0, 0,   0, y, 0, 0,   0, 0, z, 0,   0, 0, 0, 1 >>)

Mat4_fromRotationX(H, k, out) ==
  LET c == CosQuarter(k) s == SinQuarter(k)
  IN  Mat4_writeAll(H, out, << 1, 0, 0, 0,   0, c, s, 0,   0, -s, c, 0,   0, 0, 0, 1 >>)

Mat4_fromRotationY(H, k, out) ==
  LET c == CosQuarter(k) s == SinQuarter(k)
  IN  Mat4_writeAll(H, out, << c, 0, -s, 0,   0, 1, 0, 0,   s, 0, c, 0,   0, 0, 0, 1 >>)

Mat4_fromRotationZ(H, k, out) ==
  LET c == CosQuarter(k) s == SinQuarter(k)
  IN  Mat4_writeAll(H, out, << c, s, 0, 0,   -s, c, 0, 0,   0, 0, 1, 0,   0, 0, 0, 1 >>)

MaxElemSteps == 2
MaxElemMats == 2

InElemMat ==
  { << 1, 2, 0, 1,   0, 1, 3, 0,   2, 0, 1, -1,   1, 0, -1, 1 >>,
    << 0, 2, 0, 0,  -2, 0, 0, 0,   0, 0, 1, 0,    4, 5, 6, 1 >> }
InElemVec == { <<5, 10, 15>>, <<2, -1, 3>> }
InElemTurns == { 1, 2, 3 }

OutElemArgs == IF Len(heap.mats) < MaxElemMats THEN MatIds \cup { Null } ELSE MatIds

InitElem ==
  /\ \E v \in InElemMat : heap = Begin(Mat4_fromValues(EmptyHeap, v))
  /\ op = NoOp
  /\ firstRef = <<>>
  /\ steps = 0

\* An in-place call on matrix this with the arguments args.
ElemCall(name, H2, this, args) ==
  Call(H2, [NoOp EXCEPT !.name = name, !.this = this, !.t = args, !.inplace = TRUE])

\* A static call with the arguments args and the out argument as passed.
ElemStatic(name, H2, args, out) ==
  Call(H2, [NoOp EXCEPT !.name = name, !.this = OutMat(heap, out), !.t = args, !.out = out])

ElemTranslate ==
  /\ steps < MaxElemSteps
  /\ \E this \in MatIds, v \in InElemVec :
       ElemCall("translate", Mat4_translate(Begin(heap), this, v[1], v[2], v[3]), this, v)

ElemScale ==
  /\ steps < MaxElemSteps
  /\ \E this \in MatIds, v \in InElemVec :
       ElemCall("scale", Mat4_scale(Begin(heap), this, v[1], v[2], v[3]), this, v)

ElemRotateX ==
  /\ steps < MaxElemSteps
  /\ \E this \in MatIds, k \in InElemTurns :
       ElemCall("rotateX", Mat4_rotateX(Begin(heap), this, k), this, <<k>>)

ElemRotateY ==
  /\ steps < MaxElemSteps
  /\ \E this \in MatIds, k \in InElemTurns :
       ElemCall("rotateY", Mat4_rotateY(Begin(heap), this, k), this, <<k>>)

ElemRotateZ ==
  /\ steps < MaxElemSteps
  /\ \E this \in MatIds, k \in InElemTurns :
       ElemCall("rotateZ", Mat4_rotateZ(Begin(heap), this, k), this, <<k>>)

ElemFromTranslation ==
  /\ steps < MaxElemSteps
  /\ \E v \in InElemVec, out \in OutElemArgs :
       ElemStatic("Mat4.fromTranslation",
                  Mat4_fromTranslation(Begin(heap), v[1], v[2], v[3], out), v, out)

ElemFromScaling ==
  /\ steps < MaxElemSteps
  /\ \E v \in InElemVec, out \in OutElemArgs :
       ElemStatic("Mat4.fromScaling",
                  Mat4_fromScaling(Begin(heap), v[1], v[2], v[3], out), v, out)

ElemFromRotation ==
  /\ steps < MaxElemSteps
  /\ \E k \in InElemTurns, out \in OutElemArgs :
       \/ ElemStatic("Mat4.fromRotationX", Mat4_fromRotationX(Begin(heap), k, out), <<k>>, out)
       \/ ElemStatic("Mat4.fromRotationY", Mat4_fromRotationY(Begin(heap), k, out), <<k>>, out)
       \/ ElemStatic("Mat4.fromRotationZ", Mat4_fromRotationZ(Begin(heap), k, out), <<k>>, out)

NextElem ==
  \/ ElemTranslate \/ ElemScale \/ ElemRotateX \/ ElemRotateY \/ ElemRotateZ
  \/ ElemFromTranslation \/ ElemFromScaling \/ ElemFromRotation

SpecElem == InitElem /\ [][NextElem]_vars

\* Mat4.multiply(m, E, null) for the elementary matrix E that the static
\* call leading to heap HE left in a new Mat4.
TimesElementary(HE, m) ==
  LET P == Mat4_multiplyStatic(HE, m, LastMat(HE), Null)
  IN  P.mats[LastMat(P)]

\* C24: each in-place elementary operation leaves in m the product
\* Mat4.multiply(m, E) of the previous m and the elementary matrix E of the
\* same arguments: fromTranslation for translate, fromScaling for scale,
\* fromRotationX/Y/Z for rotateX/Y/Z (angles of k quarter turns).
C24_RightMultiplyElementary ==
  [][ LET m == op'.this
          a == op'.t
      IN  /\ op'.name = "translate"
               => heap'.mats[m] = TimesElementary(Mat4_fromTranslation(heap, a[1], a[2], a[3], Null), m)
          /\ op'.name = "scale"
               => heap'.mats[m] = TimesElementary(Mat4_fromScaling(heap, a[1], a[2], a[3], Null), m)
          /\ op'.name = "rotateX"
               => heap'.mats[m] = TimesElementary(Mat4_fromRotationX(heap, a[1], Null), m)
          /\ op'.name = "rotateY"
               => heap'.mats[m] = TimesElementary(Mat4_fromRotationY(heap, a[1], Null), m)
          /\ op'.name = "rotateZ"
               => heap'.mats[m] = TimesElementary(Mat4_fromRotationZ(heap, a[1], Null), m) ]_vars

\* translate(5, 10, 15) was called on a matrix that had been turned by a
\* quarter about z, is not affine and is not the identity, and changed its
\* last column, m15 included.
C24_Witness ==
  /\ op.name = "translate"
  /\ op.t = <<5, 10, 15>>
  /\ heap.mats[op.this] = << 0, 1, 3, 0,   -1, -2, 0, -1,   2, 0, 1, -1,   21, -15, 29, -24 >>

(***************************************************************************)
(* Growing an AABB by points (AABB.ts).  The machine has one box, created  *)
(* by new AABB(); op.t is the sequence of the points added by              *)
(* expandByPoint since the box was last made empty, and op.a is 1 while    *)
(* the box has only been changed by setEmpty and expandByPoint.            *)
(***************************************************************************)
\* this.setEmpty()
AABB_setEmpty(H, this) ==
  LET H1 == Vec3_set(H, H.boxes[this].min, Infinity, Infinity, Infinity)
  IN  Vec3_set(H1, H1.boxes[this].max, -Infinity, -Infinity, -Infinity)

\* this.set(minX, minY, minZ, maxX, maxY, maxZ)
AABB_set(H, this, lo, hi) ==
  LET H1 == Vec3_set(H, H.boxes[this].min, lo[1], lo[2], lo[3])
  IN  Vec3_set(H1, H1.boxes[this].max, hi[1], hi[2], hi[3])

\* An expandByPoint that tests the max only when the min was not lowered.
AABB_expandByPoint_ElseIf(H, this, x, y, z) ==
  LET tmin == H.boxes[this].min  tmax == H.boxes[this].max
      lx == XLt(x, H.vecs[tmin][1]) ly == XLt(y, H.vecs[tmin][2]) lz == XLt(z, H.vecs[tmin][3])
      H1 == PutIf(H, lx, tmin, 1, x)
      H2 == PutIf(H1, ly, tmin, 2, y)
      H3 == PutIf(H2, lz, tmin, 3, z)
      H4 == PutIf(H3, ~lx /\ XGt(x, H3.vecs[tmax][1]), tmax, 1, x)
      H5 == PutIf(H4, ~ly /\ XGt(y, H4.vecs[tmax][2]), tmax, 2, y)
  IN  PutIf(H5, ~lz /\ XGt(z, H5.vecs[tmax][3]), tmax, 3, z)

\* this.expandByPoint(x, y, z)
AABB_expandByPoint(H, this, x, y, z) ==
  LET tmin == H.boxes[this].min  tmax == H.boxes[this].max
      H1 == PutIf(H, XLt(x, H.vecs[tmin][1]), tmin, 1, x)
      H2 == PutIf(H1, XLt(y, H1.vecs[tmin][2]), tmin, 2, y)
      H3 == PutIf(H2, XLt(z, H2.vecs[tmin][3]), tmin, 3, z)
      H4 == PutIf(H3, XGt(x, H3.vecs[tmax][1]), tmax, 1, x)
      H5 == PutIf(H4, XGt(y, H4.vecs[tmax][2]), tmax, 2, y)
  IN  PutIf(H5, XGt(z, H5.vecs[tmax][3]), tmax, 3, z)

\* dx, dy or dz of distanceToPointSq: the distance of coordinate x from the
\* interval of axis i
AxisDistance(H, this, i, x) ==
  IF XLt(x, BoxMin(H, this)[i]) THEN XSub(BoxMin(H, this)[i], x)
  ELSE IF XGt(x, BoxMax(H, this)[i]) THEN XSub(x, BoxMax(H, this)[i])
  ELSE 0

\* this.distanceToPointSq(x, y, z)
AABB_distanceToPointSq(H, this, x, y, z) ==
  LET dx == AxisDistance(H, this, 1, x)
      dy == AxisDistance(H, this, 2, y)
      dz == AxisDistance(H, this, 3, z)
  IN  XAdd(XAdd(XMul(dx, dx), XMul(dy, dy)), XMul(dz, dz))

\* x < min ? min : (x > max ? max : x) on axis i
ClampAxis(H, this, i, x) ==
  IF XLt(x, BoxMin(H, this)[i]) THEN BoxMin(H, this)[i]
  ELSE IF XGt(x, BoxMax(H, this)[i]) THEN BoxMax(H, this)[i]
  ELSE x

\* this.clampPoint(x, y, z, out): out is written one component after the other
AABB_clampPoint(H, this, x, y, z, out) ==
  LET o == OutVec(H, out)
      H0 == WithOutVec3(H, out)
      H1 == [H0 EXCEPT !.vecs[o][1] = ClampAxis(H0, this, 1, x)]
      H2 == [H1 EXCEPT !.vecs[o][2] = ClampAxis(H1, this, 2, y)]
  IN  [H2 EXCEPT !.vecs[o][3] = ClampAxis(H2, this, 3, z)]

MaxExpandSteps == 3

InExpandPoint == { <<1, -2, 3>>, <<-1, 4, 3>>, <<0, 0, 5>>, <<Infinity, 0, 4>> }

InitExpand ==
  /\ heap = Begin(NewAABB(EmptyHeap))
  /\ op = [NoOp EXCEPT !.name = "new AABB", !.this = 1, !.a = 1, !.t = <<>>]
  /\ firstRef = <<>>
  /\ steps = 0

\* A query of the box with point p and result ret: the history stays.
ExpandQuery(name, H2, p, ret) ==
  Call(H2, [op EXCEPT !.name = name, !.b = p, !.ret = ret])

ExpandSetEmpty ==
  /\ steps < MaxExpandSteps
  /\ Call(AABB_setEmpty(Begin(heap), 1),
          [NoOp EXCEPT !.name = "setEmpty", !.this = 1, !.a = 1, !.t = <<>>])

\* set(...) to a cube: the box no longer comes from points alone.
ExpandSet ==
  /\ steps < MaxExpandSteps
  /\ Call(AABB_set(Begin(heap), 1, <<0, 0, 0>>, <<2, 2, 5>>),
          [NoOp EXCEPT !.name = "set", !.this = 1, !.a = 0, !.t = <<>>])

ExpandByPoint ==
  /\ steps < MaxExpandSteps
  /\ \E p \in InExpandPoint :
       Call(AABB_expandByPoint(Begin(heap), 1, p[1], p[2], p[3]),
            [op EXCEPT !.name = "expandByPoint", !.b = p, !.ret = Null, !.t = Append(@, p)])

ExpandIsEmpty ==
  /\ steps < MaxExpandSteps
  /\ ExpandQuery("isEmpty", Begin(heap), Null, IF AABB_isEmpty(heap, 1) THEN 1 ELSE 0)

ExpandContainsPoint ==
  /\ steps < MaxExpandSteps
  /\ \E p \in InExpandPoint :
       ExpandQuery("containsPoint", Begin(heap), p, IF AABB_containsPoint(heap, 1, p) THEN 1 ELSE 0)

ExpandDistanceToPointSq ==
  /\ steps < MaxExpandSteps
  /\ \E p \in InExpandPoint :
       ExpandQuery("distanceToPointSq", Begin(heap), p,
                   AABB_distanceToPointSq(heap, 1, p[1], p[2], p[3]))

ExpandClampPoint ==
  /\ steps < MaxExpandSteps
  /\ \E p \in InExpandPoint :
       ExpandQuery("clampPoint", AABB_clampPoint(Begin(heap), 1, p[1], p[2], p[3], Null), p,
                   Len(heap.vecs) + 1)

NextExpand ==
  \/ ExpandSetEmpty \/ ExpandSet \/ ExpandByPoint
  \/ ExpandIsEmpty \/ ExpandContainsPoint \/ ExpandDistanceToPointSq \/ ExpandClampPoint

SpecExpand == InitExpand /\ [][NextExpand]_vars

\* The smallest and the largest coordinate i of the points of sequence S.
MinCoordinate(S, i) ==
  CHOOSE m \in { S[j][i] : j \in 1 .. Len(S) } : \A j \in 1 .. Len(S) : m <= S[j][i]
MaxCoordinate(S, i) ==
  CHOOSE m \in { S[j][i] : j \in 1 .. Len(S) } : \A j \in 1 .. Len(S) : m >= S[j][i]

\* The point clampPoint(p) leaves in a new Vec3.
ClampedPoint(H, this, p) ==
  LET C == AABB_clampPoint(H, this, p[1], p[2], p[3], Null)
  IN  C.vecs[LastVec(C)]

\* C26: a box made by new AABB() or setEmpty() is empty; once points have
\* been added to it by expandByPoint it is not empty, its min and max are
\* the componentwise minimum and maximum of the points added, and it
\* contains each of them; and a box that is not empty contains a point
\* exactly when distanceToPointSq of the point is 0 and clampPoint gives the
\* point itself.
C26_ExpandByPoint ==
  /\ (op.a = 1 /\ op.t = <<>>) => AABB_isEmpty(heap, 1)
  /\ (op.a = 1 /\ op.t # <<>>)
       => /\ ~AABB_isEmpty(heap, 1)
          /\ BoxMin(heap, 1) = [i \in 1 .. 3 |-> MinCoordinate(op.t, i)]
          /\ BoxMax(heap, 1) = [i \in 1 .. 3 |-> MaxCoordinate(op.t, i)]
          /\ \A j \in 1 .. Len(op.t) : AABB_containsPoint(heap, 1, op.t[j])
  /\ ~AABB_isEmpty(heap, 1)
       => \A p \in InExpandPoint :
            AABB_containsPoint(heap, 1, p)
              <=> (/\ AABB_distanceToPointSq(heap, 1, p[1], p[2], p[3]) = 0
                   /\ ClampedPoint(heap, 1, p) = p)

\* Three different points were added to the empty box, which now spans
\* (-1,-2,3) .. (1,4,5) and has (0,0,5) on its boundary.
C26_Witness ==
  /\ op.name = "expandByPoint"
  /\ op.a = 1
  /\ op.t = << <<1, -2, 3>>, <<-1, 4, 3>>, <<0, 0, 5>> >>
  /\ BoxValue(heap, 1) = << <<-1, -2, 3>>, <<1, 4, 5>> >>

====
